---- MODULE Spec2Model ----
(***************************************************************************)
(* Model of the projection animation core of d3-animated-map-reference:    *)
(* GeoZoomService (continuous convergence loop, animateTo, projection      *)
(* replacement), ProjectionTransitionService (fixed-duration transitions)  *)
(* and the browser frame scheduler they run on; of                         *)
(* ProjectionSelectorService (recommendation of a projection type, with    *)
(* hysteresis) and the engine's debounced projection check; and of the     *)
(* benchmark's MetricsService (frame history and aggregation),             *)
(* ReprojectionService, TissotIndicatrixService and                        *)
(* AnimationControllerService (scripted sequences of steps).               *)
(*                                                                         *)
(* Numbers are fixed point.  Scales are in micro-pixels and angles in      *)
(* micro-degrees (Micro units per pixel / degree); factors, ratios and the *)
(* animation parameter t are in units of 1/Q.  Products are truncated      *)
(* toward zero.  The code's 1e-4 thresholds are Eps units.                 *)
(***************************************************************************)
EXTENDS Integers, Sequences, FiniteSets, TLC

\* ---------------------------------------------------------------- units
Micro == 1000 * 1000
Q == 100 * 100
Deg == Micro

\* ---------------------------------------------------------------- bounds
MaxInputs == 2          \* wheel and pointer events per behaviour
MaxCalls == 2           \* programmatic calls (setCenter, setScale, animateTo, ...) per behaviour
MaxGap == 2             \* an input arrives within MaxGap frames of the previous one, or when no frame is pending
MaxFrames == 3          \* frames observed after the last input (Spec)
SettleCap == 320        \* frames observed after the last input (SpecZoom)
MaxHandles == 6         \* frame handles that can be live at once
MaxSmoothCalls == 1     \* smooth setScale requests per behaviour (SpecZoom)
MaxSelections == 3      \* selectOptimalProjection calls per behaviour (SpecSelector)
MaxRuns == 2            \* startBenchmark calls per behaviour (SpecMetrics)
MaxRecords == 122       \* recordFrame calls per behaviour (SpecMetrics)
MaxEarly == 2           \* recordFrame calls before which a benchmark starts, or a
                        \* frame is recorded outside a run (SpecMetrics)
MaxControllerCalls == 4  \* playSequence, stop, pause and resume calls per behaviour (SpecController)
MaxStarts == 4          \* step animations started per behaviour (SpecController)
MaxFrameCount == 2      \* frames monitorFps counts before its half second is over (SpecController)
MaxVaried == 2          \* frames at the start of a run whose timing varies (SpecMetrics)
FrameMs == 16           \* time between two frames, ms

\* ---------------------------------------------------------------- arithmetic
Abs(x) == IF x < 0 THEN -x ELSE x
Sgn(x) == IF x < 0 THEN -1 ELSE 1
Min(a, b) == IF a < b THEN a ELSE b
Max(a, b) == IF a > b THEN a ELSE b

\* x * q / Q truncated toward zero, without a 32-bit overflow of x * q
MulQ(x, q) ==
  Sgn(x) * Sgn(q) *
    ((Abs(x) \div Q) * Abs(q) + ((Abs(x) % Q) * Abs(q)) \div Q)

\* <<q, r>> with a * b = q * c + r and 0 <= r < c, for a, b >= 0 and c > 0,
\* by binary long multiplication (no intermediate exceeds 32 bits)
RECURSIVE MulDivQR(_, _, _)
MulDivQR(a, b, c) ==
  IF b = 0 THEN <<0, 0>>
  ELSE LET h == MulDivQR(a, b \div 2, c)
           dc == h[2] >= c - h[2]
           dq == 2 * h[1] + (IF dc THEN 1 ELSE 0)
           dr == IF dc THEN h[2] - (c - h[2]) ELSE 2 * h[2]
           ar == a % c
           sc == dr >= c - ar
           sq == dq + (a \div c) + (IF sc THEN 1 ELSE 0)
           sr == IF sc THEN dr - (c - ar) ELSE dr + ar
       IN IF b % 2 = 1 THEN <<sq, sr>> ELSE <<dq, dr>>

\* a * b / c truncated toward zero (c > 0); the arguments are evaluated once
MulDiv(a, b, c) ==
  CHOOSE r \in {Sgn(x) * Sgn(y) * MulDivQR(Abs(x), Abs(y), z)[1] :
                  x \in {a}, y \in {b}, z \in {c}} : TRUE

\* a / b as a factor in units of 1/Q (b > 0)
RatioQ(a, b) == MulDiv(a, Q, b)

\* JavaScript remainder x % m (sign of the dividend)
JsRem(x, m) == Sgn(x) * (Abs(x) % m)

\* ---------------------------------------------------------------- program constants
Eps == 100                       \* 1e-4
SmoothingBaseQ == 1500           \* smoothingBase = 0.15
ScaleSmoothingBaseQ == 1800      \* scaleSmoothingBase = 0.18
PanScaleAlpha == 1               \* panScaleAlpha = 1
SensitivityQ == 5000             \* sensitivity = 0.5
DefaultExtent == <<5000, 200000>>   \* scaleExtent = [0.5, 20]

\* ---------------------------------------------------------------- inputs
Viewports == {<<220, 220>>}                  \* [width, height] handed to init
Extents == {DefaultExtent}                   \* config.scaleExtent handed to init
WheelDeltas == {-100, 100}                   \* WheelEvent.deltaY
Points == {<<0, 0>>, <<40, 20>>}             \* pointer positions (clientX, clientY)
ProjIds == {"p0", "p1", "p2"}                \* projection objects
NoProj == "none"
Zero3 == <<0, 0, 0>>
Centers == {<<10, 20>>}                      \* [lon, lat] arguments, degrees
ArgScales == {250000, 2 * Micro}             \* relative scale arguments: 0.25, 2
Durations == {32}                            \* animation durations, ms
FirstElapsed == {FrameMs}                    \* elapsed time seen by the first frame of an animation
InitialTypes == {"equirectangular"}          \* initialProjectionType of the component
SwitchTypes == {"orthographic"}              \* projection types switched to
AnimatedDurations == {32}                    \* durations of projection transitions and cross-fades, ms
Angles == {-540, -190, -180, -170, -90, 0, 90, 170, 180, 190, 350}   \* angle arguments, degrees
AngleTs == {0, Q \div 4, Q \div 2, Q}        \* interpolation parameters

VARIABLES
  \* GeoZoomService
  projection, currentScale, currentRotation, targetRotation, currentCenter,
  initialScale, initialCenter, scaleExtent, animationId, targetScale,
  scaleVelocity, isDragging, lastMousePos, dynamicProjectionEnabled,
  projectionCheckTimeout, width, height,
  isTransitioning, currentProjectionType,
  \* ProjectionTransitionService
  transitionState, transitionAnimationId,
  \* ProjectionSelectorService
  selectorProjectionType, lastChangeScale,
  \* projection objects (d3 GeoProjection): scale and rotate of each
  proj,
  \* frame scheduler: callbacks registered for the next frame, and the rest
  \* of the frame being run
  rafQueue, running,
  \* completion signals (callback, promise, onTransitionComplete) received
  \* from each fixed-duration animation, in the order they were started
  signals,
  \* bookkeeping: frames run since the last input or call, input events
  \* and programmatic calls used
  frames, inputs, calls,
  \* one application of interpolateAngle: its arguments and its result
  angle,
  \* the last selectOptimalProjection call (viewport, result, whether
  \* onProjectionRecommendation fired) and the last run of the debounced
  \* projection check (whether onProjectionTypeChange fired)
  selection, settleCheck,
  \* MetricsService: its fields and signals, the clock performance.now(),
  \* the last BenchmarkResult returned, and the startBenchmark and
  \* recordFrame calls made
  frameHistory, isRunning, lastFrameTime, benchmarkStartTime, frameCount,
  currentFps, currentFrameTime, currentReprojectionTime, now,
  benchmarkResult, runs, recordCalls,
  \* ReprojectionService: the source ImageData of the benchmark and the
  \* last reprojection made (its arguments, the source it was handed and the
  \* ImageData returned)
  sourceData, reprojectionResult,
  \* TissotIndicatrixService: the last generateTissotCircles call (its grid
  \* spacing, the projection it was handed and the circles returned)
  tissot,
  \* AnimationControllerService: its fields, the step animations
  \* (animateToExtent) in flight, the executeStep timers and monitorFps
  \* frame callbacks registered, the steps started in the current pass, and
  \* the step starts and calls made
  controller, stepAnimations, stepTimers, fpsMonitors, stepLog, starts,
  controllerCalls,
  \* one interpolated rotation of a fixed-duration animation: the rotations
  \* it leads from and to, its parameter and the rotation it applies
  interpolation

zoomVars == <<projection, currentScale, currentRotation, targetRotation,
              currentCenter, initialScale, initialCenter, scaleExtent,
              animationId, targetScale, scaleVelocity, isDragging,
              lastMousePos, dynamicProjectionEnabled, projectionCheckTimeout,
              width, height>>

transVars == <<isTransitioning, currentProjectionType, transitionState,
               transitionAnimationId, selectorProjectionType, lastChangeScale>>

selVars == <<selection, settleCheck>>

metricVars == <<frameHistory, isRunning, lastFrameTime, benchmarkStartTime,
                frameCount, currentFps, currentFrameTime,
                currentReprojectionTime, now, benchmarkResult, runs,
                recordCalls>>

\* the services beside the engine: reprojection, distortion analysis
reprojVars == <<sourceData, reprojectionResult>>
ctrlVars == <<controller, stepAnimations, stepTimers, fpsMonitors, stepLog,
              starts, controllerCalls>>
toolVars == <<reprojVars, tissot, ctrlVars, interpolation>>

\* the engine, the selector and the metrics
engineVars == <<zoomVars, transVars, proj, rafQueue, running, signals, frames,
                inputs, calls, angle, selVars, metricVars>>

vars == <<engineVars, toolVars>>

\* ---------------------------------------------------------------- scheduler
QueueHandles(q) == {q[i].h : i \in 1..Len(q)}

UsedHandles ==
  QueueHandles(rafQueue) \cup QueueHandles(running) \cup
    {animationId, transitionAnimationId}

FreeHandles == (1..MaxHandles) \ UsedHandles

\* requestAnimationFrame returns a handle no one holds
NewHandle == CHOOSE h \in FreeHandles : \A g \in FreeHandles : h <= g

\* the record kept of a fixed-duration animation: how many times it has
\* signalled completion, and whether it was cancelled
NoSignal == [count |-> 0, cancelled |-> FALSE]

Signalled(aid) == [signals EXCEPT ![aid].count = @ + 1]

\* a registered frame callback: the closure and what it captured
Cb0 == [h |-> 0, kind |-> "none", aid |-> 0, elapsed |-> 0, duration |-> 0,
        startCenter |-> <<0, 0>>, startScale |-> 0,
        center |-> <<0, 0>>, scale |-> 0,
        fromRotation |-> Zero3, toRotation |-> Zero3,
        fromScale |-> 0, toScale |-> 0,
        toProjection |-> NoProj, toType |-> "none", awaited |-> FALSE]

LoopCb(h) == [Cb0 EXCEPT !.h = h, !.kind = "loop"]

\* the clock advances by one frame for every callback that measures time
Bump(q) == [i \in 1..Len(q) |->
              IF q[i].kind = "loop" THEN q[i]
              ELSE [q[i] EXCEPT !.elapsed = @ + FrameMs]]

\* The frame whose callbacks are being run: the rest of the current frame,
\* or, when it is finished, the callbacks registered for the next frame.
FrameStart == running = <<>>

CurrentFrame == IF FrameStart THEN Bump(rafQueue) ELSE running

\* callbacks registered so far for the frame after the one being run
NextFrame == IF FrameStart THEN <<>> ELSE rafQueue

Idle == rafQueue = <<>> /\ running = <<>>

\* events and calls arrive between frames, in a burst or after settling
BetweenFrames ==
  /\ running = <<>>
  /\ (frames < MaxGap \/ rafQueue = <<>>)

InputWindow == BetweenFrames /\ inputs < MaxInputs

CallWindow == BetweenFrames /\ calls < MaxCalls

\* ---------------------------------------------------------------- ProjectionSelectorService
\* calculateBaseScale(type, width, height), in micro-pixels
CalculateBaseScale(type, w, h) ==
  CASE type = "orthographic" -> MulDiv(Min(w, h) * Micro, 10, 22)
    [] type = "naturalEarth1" -> MulDiv(w * Micro, 10, 55)
    [] type = "mercator" -> MulDiv(w * Micro, 1000000, 6283185)
    [] type \in {"azimuthalEqualArea", "stereographic"} -> (Min(w, h) * Micro) \div 3
    [] type \in {"conicEqualArea", "albers"} -> (w * Micro) \div 4
    [] type = "albersUsa" -> MulDiv(w * Micro, 10, 12)
    [] OTHER -> MulDiv(w * Micro, 1000000, 6283185)

\* ---------------------------------------------------------------- GeoZoomService
ExtentMin == MulQ(initialScale, scaleExtent[1])
ExtentMax == MulQ(initialScale, scaleExtent[2])

\* (mutant) the clamp without its lower limit
ClampScaleNoMin(s) == Min(ExtentMax, s)

\* Math.max(ext[0] * initialScale, Math.min(ext[1] * initialScale, s))
ClampScale(s) == Max(ExtentMin, Min(ExtentMax, s))

\* this.currentScale / this.initialScale || 1
RelScale == IF RatioQ(currentScale, initialScale) = 0 THEN Q
            ELSE RatioQ(currentScale, initialScale)

\* d3 projection.rotate(r) keeps each angle modulo 360
ProjRotate(r) == [i \in 1..3 |-> JsRem(r[i], 360 * Deg)]

\* (mutant) startAnimationLoop without its guard
LoopNeverRunning == FALSE

\* startAnimationLoop: no-op while a handle is stored
LoopAlreadyRunning == animationId # 0

StartLoopId == IF LoopAlreadyRunning THEN animationId ELSE NewHandle

StartLoopQueue(q) == IF LoopAlreadyRunning THEN q ELSE Append(q, LoopCb(NewHandle))

\* the services as constructed
InitEngine ==
  /\ projection = NoProj
  /\ currentScale = 1 * Micro
  /\ currentRotation = Zero3
  /\ targetRotation = Zero3
  /\ currentCenter = <<0, 0>>
  /\ initialScale = 1 * Micro
  /\ initialCenter = <<0, 0>>
  /\ scaleExtent = DefaultExtent
  /\ animationId = 0
  /\ targetScale = 1 * Micro
  /\ scaleVelocity = 0
  /\ isDragging = FALSE
  /\ lastMousePos = <<0, 0>>
  /\ dynamicProjectionEnabled = FALSE
  /\ projectionCheckTimeout = 0
  /\ width = 0
  /\ height = 0
  /\ proj = [p \in ProjIds |-> [scale |-> 0, rotate |-> Zero3]]
  /\ rafQueue = <<>>
  /\ running = <<>>
  /\ signals = <<>>
  /\ frames = 0
  /\ inputs = 0
  /\ calls = 0
  /\ isTransitioning = FALSE
  /\ currentProjectionType = "equirectangular"
  /\ transitionState = [isTransitioning |-> FALSE, progress |-> 0,
                        fromType |-> "equirectangular",
                        toType |-> "equirectangular"]
  /\ transitionAnimationId = 0
  /\ selectorProjectionType = "equirectangular"
  /\ lastChangeScale = Q

AngleIdle == [from |-> 0, to |-> 0, t |-> 0, done |-> FALSE, result |-> 0]

\* no selectOptimalProjection call made yet
\* no transferProjectionState call since the last selection
NoTransfer ==
  [n |-> 0, active |-> "none", fromType |-> "none", fromScale |-> 0,
   toType |-> "none",
   scale |-> 0, lat |-> 0]

NoSelection ==
  [n |-> 0, transfer |-> NoTransfer, scale |-> 0, lat |-> 0, viewport |-> <<0, 0>>, effective |-> 0,
   type |-> "none",
   active |-> "none", emitted |-> FALSE, sameCentre |-> 0,
   prevScale |-> 0, prevType |-> "none", prev2Scale |-> 0, prev2Type |-> "none"]

\* the debounced projection check has not run yet
NoCheck == [n |-> 0, type |-> "none", active |-> "none", emitted |-> FALSE]

InitSelector ==
  /\ selection = NoSelection
  /\ settleCheck = NoCheck

\* no BenchmarkResult returned yet
NoResult ==
  [testName |-> "none", totalPixels |-> 0, avgFps |-> 0, minFps |-> 0,
   maxFps |-> 0, avgFrameTime |-> 0, avgReprojectionTime |-> 0,
   frameCount |-> 0, duration |-> 0, passesTarget |-> FALSE]

\* MetricsService as constructed
InitMetrics ==
  /\ frameHistory = <<>>
  /\ isRunning = FALSE
  /\ lastFrameTime = 0
  /\ benchmarkStartTime = 0
  /\ frameCount = 0
  /\ currentFps = 0
  /\ currentFrameTime = 0
  /\ currentReprojectionTime = 0
  /\ now = 0
  /\ benchmarkResult = NoResult
  /\ runs = 0
  /\ recordCalls = 0

\* a pixel with every byte zero; no ImageData; no reprojection made yet
Transparent == <<0, 0, 0, 0>>
NoImage == [width |-> 0, height |-> 0, data |-> <<>>]
NoReprojection ==
  [op |-> "none", source |-> NoImage, scale |-> 0, centerLon |-> 0,
   centerLat |-> 0, imageData |-> NoImage]

\* generateTissotCircles not called yet
NoLoop == [pc |-> "idle", lat |-> 0, lon |-> 0, samples |-> <<>>]
NoTissot ==
  [gridSpacing |-> 0, projection |-> <<>>, done |-> FALSE, circles |-> <<>>,
   loop |-> NoLoop]

\* no rotation interpolated yet
NoParameters ==
  [rotate |-> <<0, 0, 0>>, scale |-> 0, translate |-> <<0, 0>>, clipAngle |-> 0,
   rotatable |-> FALSE, clippable |-> FALSE]
NoInterpolation ==
  [op |-> "none", from |-> <<0, 0, 0>>, to |-> <<0, 0, 0>>, t |-> 0,
   rotation |-> <<0, 0, 0>>, frames |-> 0, fromProjection |-> NoParameters,
   toParameters |-> NoParameters, toProjection |-> NoParameters]

\* no sequence handed to playSequence yet
NoSequence == [steps |-> 0, loop |-> FALSE]

InitController ==
  /\ controller = [currentSequence |-> NoSequence, currentStepIndex |-> 0,
                   isPlaying |-> FALSE, frameCount |-> 0, fps |-> 0]
  /\ stepAnimations = <<>>
  /\ stepTimers = 0
  /\ fpsMonitors = 0
  /\ stepLog = <<>>
  /\ starts = 0
  /\ controllerCalls = 0

InitTools ==
  /\ sourceData = NoImage
  /\ reprojectionResult = NoReprojection
  /\ tissot = NoTissot
  /\ InitController
  /\ interpolation = NoInterpolation

Init == InitEngine /\ angle = AngleIdle /\ InitSelector /\ InitMetrics /\ InitTools

\* init(element, projection, width, height, config) as the component's
\* initializeMap calls it: with the projection createProjection(type, width,
\* height) returns, after setCurrentProjectionType(type), and followed by
\* enableDynamicProjection(selector, transition) when `dynamic` is set.
\* disableDynamicProjection is not called, so dynamicProjectionEnabled also
\* tells whether projectionSelector and projectionTransition are set.
init(type, vp, ext, dynamic) ==
  /\ projection = NoProj
  /\ projection' = "p0"
  /\ proj' = [proj EXCEPT !["p0"] =
                [scale |-> CalculateBaseScale(type, vp[1], vp[2]), rotate |-> Zero3]]
  /\ width' = vp[1]
  /\ height' = vp[2]
  /\ scaleExtent' = ext
  /\ initialScale' = proj'["p0"].scale
  /\ currentScale' = proj'["p0"].scale
  /\ targetScale' = proj'["p0"].scale
  /\ initialCenter' = <<0, 0>>
  /\ currentCenter' = <<0, 0>>
  /\ currentRotation' = Zero3
  /\ targetRotation' = Zero3
  /\ currentProjectionType' = type
  /\ dynamicProjectionEnabled' = dynamic
  /\ UNCHANGED <<animationId, scaleVelocity, isDragging, lastMousePos,
                 projectionCheckTimeout,
                 rafQueue, running, signals, frames, inputs, calls,
                 isTransitioning, transitionState, transitionAnimationId,
                 selectorProjectionType, lastChangeScale, angle, selVars, metricVars, toolVars>>

\* handleMouseDown(event)
handleMouseDown(pt) ==
  /\ projection # NoProj
  /\ InputWindow
  /\ isDragging' = TRUE
  /\ lastMousePos' = pt
  /\ inputs' = inputs + 1
  /\ UNCHANGED <<projection, currentScale, currentRotation, targetRotation,
                 currentCenter, initialScale, initialCenter, scaleExtent,
                 animationId, targetScale, scaleVelocity,
                 dynamicProjectionEnabled, projectionCheckTimeout,
                 width, height, proj, rafQueue, running, signals, frames,
                 calls>>
  /\ UNCHANGED <<transVars, angle, selVars, metricVars, toolVars>>

\* Math.pow(relScale, -panScaleAlpha), as a factor in units of 1/Q
PanScaleFactor == (Q * Q) \div RelScale

\* dx * sensitivity * scaleFactor, for a pointer movement of d pixels
PanRotation(d) == MulQ(MulQ(d * Deg, SensitivityQ), PanScaleFactor)

\* the target after a pointer movement from lastMousePos to pt
DragTarget(pt) ==
  <<targetRotation[1] + PanRotation(pt[1] - lastMousePos[1]),
    targetRotation[2] + PanRotation(-(pt[2] - lastMousePos[2])),
    targetRotation[3]>>

\* handleMouseMove(event)
handleMouseMove(pt) ==
  /\ projection # NoProj
  /\ InputWindow
  /\ isDragging
  /\ lastMousePos' = pt
  /\ targetRotation' = DragTarget(pt)
  /\ animationId' = StartLoopId
  /\ rafQueue' = StartLoopQueue(rafQueue)
  /\ frames' = 0
  /\ inputs' = inputs + 1
  /\ UNCHANGED <<projection, currentScale, currentRotation, currentCenter,
                 initialScale, initialCenter, scaleExtent, targetScale,
                 scaleVelocity, isDragging, dynamicProjectionEnabled,
                 projectionCheckTimeout, width, height, proj, running,
                 signals, calls>>
  /\ UNCHANGED <<transVars, angle, selVars, metricVars, toolVars>>

\* handleMouseUp(): changes nothing unless a drag is in progress
handleMouseUp ==
  /\ projection # NoProj
  /\ InputWindow
  /\ isDragging
  /\ isDragging' = FALSE
  /\ inputs' = inputs + 1
  /\ UNCHANGED <<projection, currentScale, currentRotation, targetRotation,
                 currentCenter, initialScale, initialCenter, scaleExtent,
                 animationId, targetScale, scaleVelocity, lastMousePos,
                 dynamicProjectionEnabled, projectionCheckTimeout,
                 width, height, proj, rafQueue, running, signals, frames,
                 calls>>
  /\ UNCHANGED <<transVars, angle, selVars, metricVars, toolVars>>

\* delta > 0 ? 1.1 : 0.9 with delta = -event.deltaY
WheelFactor(deltaY) == IF -deltaY > 0 THEN 11000 ELSE 9000

\* the clamped target scale of handleWheel
WheelTarget(deltaY) == ClampScale(MulQ(targetScale, WheelFactor(deltaY)))

\* (mutant) handleWheel applying the new scale at once
WheelCurrentScaleImmediate(deltaY) == WheelTarget(deltaY)

\* the scale handleWheel leaves displayed: it does not touch currentScale
WheelCurrentScale(deltaY) == currentScale

\* handleWheel(event)
handleWheel(deltaY) ==
  /\ projection # NoProj
  /\ InputWindow
  /\ LET newTarget == WheelTarget(deltaY)
         velocityDelta == MulQ(newTarget - currentScale, 2000)
     IN /\ scaleVelocity' = MulQ(scaleVelocity, 5000) + velocityDelta
        /\ targetScale' = newTarget
  /\ currentScale' = WheelCurrentScale(deltaY)
  /\ animationId' = StartLoopId
  /\ rafQueue' = StartLoopQueue(rafQueue)
  /\ frames' = 0
  /\ inputs' = inputs + 1
  /\ UNCHANGED <<projection, currentRotation, targetRotation, currentCenter,
                 initialScale, initialCenter, scaleExtent, isDragging,
                 lastMousePos, dynamicProjectionEnabled,
                 projectionCheckTimeout, width, height, proj, running,
                 signals, calls>>
  /\ UNCHANGED <<transVars, angle, selVars, metricVars, toolVars>>

\* handleTouchStart(event), one touch
handleTouchStart(pt) ==
  /\ projection # NoProj
  /\ InputWindow
  /\ isDragging' = TRUE
  /\ lastMousePos' = pt
  /\ inputs' = inputs + 1
  /\ UNCHANGED <<projection, currentScale, currentRotation, targetRotation,
                 currentCenter, initialScale, initialCenter, scaleExtent,
                 animationId, targetScale, scaleVelocity,
                 dynamicProjectionEnabled, projectionCheckTimeout,
                 width, height, proj, rafQueue, running, signals, frames,
                 calls>>
  /\ UNCHANGED <<transVars, angle, selVars, metricVars, toolVars>>

\* handleTouchMove(event), one touch
handleTouchMove(pt) ==
  /\ projection # NoProj
  /\ InputWindow
  /\ isDragging
  /\ lastMousePos' = pt
  /\ targetRotation' = DragTarget(pt)
  /\ animationId' = StartLoopId
  /\ rafQueue' = StartLoopQueue(rafQueue)
  /\ frames' = 0
  /\ inputs' = inputs + 1
  /\ UNCHANGED <<projection, currentScale, currentRotation, currentCenter,
                 initialScale, initialCenter, scaleExtent, targetScale,
                 scaleVelocity, isDragging, dynamicProjectionEnabled,
                 projectionCheckTimeout, width, height, proj, running,
                 signals, calls>>
  /\ UNCHANGED <<transVars, angle, selVars, metricVars, toolVars>>

\* handleTouchEnd(): changes nothing unless a drag is in progress
handleTouchEnd ==
  /\ projection # NoProj
  /\ InputWindow
  /\ isDragging
  /\ isDragging' = FALSE
  /\ inputs' = inputs + 1
  /\ UNCHANGED <<projection, currentScale, currentRotation, targetRotation,
                 currentCenter, initialScale, initialCenter, scaleExtent,
                 animationId, targetScale, scaleVelocity, lastMousePos,
                 dynamicProjectionEnabled, projectionCheckTimeout,
                 width, height, proj, rafQueue, running, signals, frames,
                 calls>>
  /\ UNCHANGED <<transVars, angle, selVars, metricVars, toolVars>>

\* ---- the convergence frame (the animate closure of startAnimationLoop)
\* smoothingBase * Math.min(relScale, 4)
Smoothing == MulQ(SmoothingBaseQ, Min(RelScale, 4 * Q))

\* (targetRotation[i] - currentRotation[i]) * smoothing
RotationStep(i) == MulQ(targetRotation[i] - currentRotation[i], Smoothing)

\* Math.abs(v - currentRotation[i]) > 1e-4 for some axis
RotationChanged == \E i \in 1..3 : Abs(RotationStep(i)) > Eps

TargetDiff == targetScale - currentScale

\* Math.abs(scaleVelocity) > 1e-4 || Math.abs(targetDiff) > 1e-4
ScaleChanged == Abs(scaleVelocity) > Eps \/ Abs(TargetDiff) > Eps

\* Math.min(scaleSmoothingBase * Math.max(relScale, 0.5), 0.5)
ScaleSmoothing == Min(MulQ(ScaleSmoothingBaseQ, Max(RelScale, Q \div 2)), Q \div 2)

\* currentScale after the velocity and the pull toward the target
SpringScale ==
  IF ScaleChanged
  THEN currentScale + scaleVelocity + MulQ(MulQ(TargetDiff, ScaleSmoothing), 3000)
  ELSE currentScale

\* the velocity after friction and the extra damping near the target
DampedVelocity ==
  IF ScaleChanged
  THEN IF Abs(TargetDiff) < MulQ(initialScale, 1000)
       THEN MulQ(MulQ(scaleVelocity, 7500), 8000)
       ELSE MulQ(scaleVelocity, 7500)
  ELSE scaleVelocity

\* the scale displayed by the frame: the spring result, clamped
FrameScale == ClampScale(SpringScale)

\* (mutant) a loop that never notices it has settled
LoopContinuesAlways == TRUE

\* the frame asks for another frame
LoopContinues == RotationChanged \/ ScaleChanged

\* scheduleProjectionCheck(): one pending timeout, replacing an earlier one
ScheduleProjectionCheck == 1

LoopFrame(cap) ==
  /\ CurrentFrame # <<>>
  /\ Head(CurrentFrame).kind = "loop"
  /\ FrameStart => frames < cap
  /\ running' = Tail(CurrentFrame)
  /\ frames' = IF FrameStart THEN frames + 1 ELSE frames
  /\ IF projection = NoProj
     THEN /\ animationId' = 0
          /\ rafQueue' = NextFrame
          /\ UNCHANGED <<currentRotation, currentScale, scaleVelocity, proj,
                         projectionCheckTimeout>>
     ELSE /\ currentRotation' = [i \in 1..3 |-> currentRotation[i] + RotationStep(i)]
          /\ currentScale' = FrameScale
          /\ scaleVelocity' = DampedVelocity
          /\ proj' = [proj EXCEPT ![projection] =
                        [scale |-> FrameScale, rotate |-> ProjRotate(currentRotation')]]
          /\ IF LoopContinues
             THEN /\ animationId' = NewHandle
                  /\ rafQueue' = Append(NextFrame, LoopCb(NewHandle))
                  /\ UNCHANGED projectionCheckTimeout
             ELSE /\ animationId' = 0
                  /\ rafQueue' = NextFrame
                  /\ projectionCheckTimeout' =
                       IF dynamicProjectionEnabled THEN ScheduleProjectionCheck
                       ELSE projectionCheckTimeout
  /\ UNCHANGED <<projection, targetRotation, currentCenter, initialScale,
                 initialCenter, scaleExtent, targetScale, isDragging,
                 lastMousePos, dynamicProjectionEnabled, width, height,
                 signals, inputs, calls>>
  /\ UNCHANGED <<transVars, angle, selVars, metricVars, toolVars>>

\* ---- programmatic view changes
\* this.currentScale / this.initialScale, as a relative scale in micro units
RelativeScale == MulDiv(currentScale, Micro, initialScale)

\* this.initialScale * scale, for a relative scale in micro units
AbsoluteScale(scale) == MulDiv(initialScale, scale, Micro)

\* the rotation setCenter(center) displays: [-center[0], -center[1], 0]
CenterRotation(c) == <<-c[1], -c[2], 0>>

\* the call goes on without a projection: setCenter stores the rotation
ReturnsLate ==
  /\ projection = NoProj
  /\ CallWindow
  /\ calls' = calls + 1
  /\ currentRotation' = <<-10 * Deg, -20 * Deg, 0>>
  /\ targetRotation' = <<-10 * Deg, -20 * Deg, 0>>
  /\ UNCHANGED <<projection, currentScale, currentCenter, initialScale,
                 initialCenter, scaleExtent, animationId, targetScale,
                 scaleVelocity, isDragging, lastMousePos,
                 dynamicProjectionEnabled, projectionCheckTimeout, width,
                 height>>
  /\ UNCHANGED <<transVars, proj, rafQueue, running, signals,
                 frames, inputs, angle, selVars, metricVars, toolVars>>

\* `if (!this.projection) return` taken: a programmatic call made before
\* init() has supplied a projection returns at once
ReturnsEarly ==
  /\ projection = NoProj
  /\ CallWindow
  /\ calls' = calls + 1
  /\ UNCHANGED <<zoomVars, transVars, proj, rafQueue, running, signals,
                 frames, inputs, angle, selVars, metricVars, toolVars>>

\* setCenter(center, triggerRender), center in micro-degrees
setCenter(c) ==
  \/ ReturnsEarly
  \/ /\ projection # NoProj
     /\ CallWindow
     /\ currentRotation' = CenterRotation(c)
     /\ targetRotation' = CenterRotation(c)
     /\ proj' = [proj EXCEPT ![projection].rotate = ProjRotate(CenterRotation(c))]
     /\ frames' = 0
     /\ calls' = calls + 1
     /\ UNCHANGED <<projection, currentScale, currentCenter, initialScale,
                    initialCenter, scaleExtent, animationId, targetScale,
                    scaleVelocity, isDragging, lastMousePos,
                    dynamicProjectionEnabled, projectionCheckTimeout, width,
                    height, rafQueue, running, signals, inputs>>
     /\ UNCHANGED <<transVars, angle, selVars, metricVars, toolVars>>

\* setScale(scale, triggerRender)
setScale(scale, triggerRender) ==
  \/ ReturnsEarly
  \/ /\ projection # NoProj
     /\ CallWindow
     /\ IF triggerRender
        THEN /\ targetScale' = AbsoluteScale(scale)
             /\ animationId' = StartLoopId
             /\ rafQueue' = StartLoopQueue(rafQueue)
             /\ UNCHANGED <<currentScale, scaleVelocity, proj>>
        ELSE /\ currentScale' = AbsoluteScale(scale)
             /\ targetScale' = AbsoluteScale(scale)
             /\ scaleVelocity' = 0
             /\ proj' = [proj EXCEPT ![projection].scale = AbsoluteScale(scale)]
             /\ UNCHANGED <<animationId, rafQueue>>
     /\ frames' = 0
     /\ calls' = calls + 1
     /\ UNCHANGED <<projection, currentRotation, targetRotation, currentCenter,
                    initialScale, initialCenter, scaleExtent, isDragging,
                    lastMousePos, dynamicProjectionEnabled,
                    projectionCheckTimeout, width, height, running, signals,
                    inputs>>
     /\ UNCHANGED <<transVars, angle, selVars, metricVars, toolVars>>

\* the frame callback animateTo registers; animateTo keeps no handle
AnimateToCb(h, center, scale, duration, first) ==
  [Cb0 EXCEPT !.h = h, !.kind = "animateTo", !.aid = Len(signals) + 1,
              !.elapsed = first - FrameMs, !.duration = duration,
              !.startCenter = currentCenter, !.startScale = RelativeScale,
              !.center = center, !.scale = scale]

\* the frame queue after animateTo: the new callback is added to whatever
\* is already registered
AnimateToQueue(q, cb) == Append(q, cb)

\* animateTo(center, scale, duration, callback); the first frame sees
\* `first` ms elapsed
animateTo(center, scale, duration, first) ==
  \/ ReturnsEarly
  \/ /\ projection # NoProj
     /\ CallWindow
     /\ FreeHandles # {}
     /\ rafQueue' = AnimateToQueue(rafQueue,
                      AnimateToCb(NewHandle, center, scale, duration, first))
     /\ signals' = Append(signals, NoSignal)
     /\ frames' = 0
     /\ calls' = calls + 1
     /\ UNCHANGED <<zoomVars, proj, running, inputs>>
     /\ UNCHANGED <<transVars, angle, selVars, metricVars, toolVars>>

\* reset(duration, callback) is animateTo(initialCenter, 1, duration, callback)
reset(duration, first) ==
  \/ ReturnsEarly
  \/ /\ projection # NoProj
     /\ CallWindow
     /\ FreeHandles # {}
     /\ rafQueue' = AnimateToQueue(rafQueue,
                      AnimateToCb(NewHandle, <<initialCenter[1] * Deg, initialCenter[2] * Deg>>,
                                  Micro, duration, first))
     /\ signals' = Append(signals, NoSignal)
     /\ frames' = 0
     /\ calls' = calls + 1
     /\ UNCHANGED <<zoomVars, proj, running, inputs>>
     /\ UNCHANGED <<transVars, angle, selVars, metricVars, toolVars>>

\* Math.min(elapsed / duration, 1), in units of 1/Q
Progress(elapsed, duration) == Min(MulDiv(elapsed, Q, duration), Q)

\* d3.easeCubicInOut(t): ((t *= 2) <= 1 ? t * t * t : (t -= 2) * t * t + 2) / 2
EaseCubicInOut(t) ==
  IF 2 * t <= Q
  THEN MulQ(MulQ(2 * t, 2 * t), 2 * t) \div 2
  ELSE (MulQ(MulQ(2 * t - 2 * Q, 2 * t - 2 * Q), 2 * t - 2 * Q) + 2 * Q) \div 2

\* from + (to - from) * t
Lerp(from, to, t) == from + MulQ(to - from, t)

\* (mutant) a fixed-duration animation that ends half way
TimedContinuesHalf(t) == t < Q \div 2

\* a fixed-duration frame asks for another frame while t < 1
TimedContinues(t) == t < Q

\* the centre animateTo hands to setCenter at eased time `eased`
InterpCenter(startCenter, center, eased) ==
  <<Lerp(startCenter[1], center[1], eased), Lerp(startCenter[2], center[2], eased)>>

\* the animate closure of animateTo
AnimateToFrame(cap) ==
  /\ CurrentFrame # <<>>
  /\ Head(CurrentFrame).kind = "animateTo"
  /\ FrameStart => frames < cap
  /\ LET cb == Head(CurrentFrame)
         t == Progress(cb.elapsed, cb.duration)
         eased == EaseCubicInOut(t)
         interpCenter == InterpCenter(cb.startCenter, cb.center, eased)
         interpScale == Lerp(cb.startScale, cb.scale, eased)
     IN /\ currentRotation' = CenterRotation(interpCenter)
        /\ targetRotation' = CenterRotation(interpCenter)
        /\ currentScale' = AbsoluteScale(interpScale)
        /\ targetScale' = AbsoluteScale(interpScale)
        /\ scaleVelocity' = 0
        /\ proj' = [proj EXCEPT ![projection] =
                      [scale |-> AbsoluteScale(interpScale),
                       rotate |-> ProjRotate(CenterRotation(interpCenter))]]
        /\ IF TimedContinues(t)
           THEN /\ rafQueue' = Append(NextFrame, [cb EXCEPT !.h = NewHandle])
                /\ UNCHANGED signals
           ELSE /\ rafQueue' = NextFrame
                /\ signals' = Signalled(cb.aid)
  /\ running' = Tail(CurrentFrame)
  /\ frames' = IF FrameStart THEN frames + 1 ELSE frames
  /\ UNCHANGED <<projection, currentCenter, initialScale, initialCenter,
                 scaleExtent, animationId, isDragging, lastMousePos,
                 dynamicProjectionEnabled, projectionCheckTimeout, width,
                 height, inputs, calls>>
  /\ UNCHANGED <<transVars, angle, selVars, metricVars, toolVars>>

\* ---------------------------------------------------------------- ProjectionTransitionService
\* normalizeAngle(angle): the two loops, one after the other
RECURSIVE NormalizeDown(_)
NormalizeDown(a) == IF a > 180 * Deg THEN NormalizeDown(a - 360 * Deg) ELSE a

RECURSIVE NormalizeUp(_)
NormalizeUp(a) == IF a < -180 * Deg THEN NormalizeUp(a + 360 * Deg) ELSE a

normalizeAngle(a) == NormalizeUp(NormalizeDown(a))

\* interpolateValue(from, to, t)
interpolateValue(from, to, t) == from + MulQ(to - from, t)

\* (mutant) an angle interpolated like any other value
interpolateAngleLinear(from, to, t) == from + MulQ(to - from, t)

\* interpolateAngle(from, to, t)
interpolateAngle(from, to, t) ==
  LET f == normalizeAngle(from)
      g == normalizeAngle(to)
      d0 == g - f
      d1 == IF d0 > 180 * Deg THEN d0 - 360 * Deg ELSE d0
      diff == IF d1 < -180 * Deg THEN d1 + 360 * Deg ELSE d1
  IN f + MulQ(diff, t)

\* cancelTransition(): the frame queue without the callback whose handle is
\* stored (cancelAnimationFrame of a handle that already ran removes nothing)
CancelledQueue(q) == SelectSeq(q, LAMBDA cb : cb.h # transitionAnimationId)

\* the animations on record once cancelTransition() has removed a callback
CancelledSignals ==
  [a \in DOMAIN signals |->
     IF \E i \in 1..Len(rafQueue) :
          rafQueue[i].h = transitionAnimationId /\ rafQueue[i].aid = a
     THEN [signals[a] EXCEPT !.cancelled = TRUE]
     ELSE signals[a]]

\* the frame callback transition(from, to, fromType, toType, duration, onFrame)
\* registers, with what it captured; `awaited` tells that applyProjectionChange
\* awaits the promise
TransitionCb(h, to, toType, duration, first, awaited) ==
  [Cb0 EXCEPT !.h = h, !.kind = "transition", !.aid = Len(signals) + 1,
              !.elapsed = first - FrameMs, !.duration = duration,
              !.fromRotation = proj[projection].rotate,
              !.toRotation = to.rotate,
              !.fromScale = proj[projection].scale,
              !.toScale = to.scale,
              !.toProjection = to.id, !.toType = toType,
              !.awaited = awaited]

\* the frame callback crossFade(from, to, fromType, toType, duration, onFrame)
\* registers
CrossFadeCb(h, toType, duration, first) ==
  [Cb0 EXCEPT !.h = h, !.kind = "crossFade", !.aid = Len(signals) + 1,
              !.elapsed = first - FrameMs, !.duration = duration,
              !.toType = toType]

\* crossFade(fromProjection, toProjection, fromType, toType, duration)
crossFade(fromType, toType, duration, first) ==
  /\ CallWindow
  /\ FreeHandles # {}
  /\ transitionState' = [isTransitioning |-> TRUE, progress |-> 0,
                         fromType |-> fromType, toType |-> toType]
  /\ transitionAnimationId' = NewHandle
  /\ rafQueue' = Append(CancelledQueue(rafQueue),
                        CrossFadeCb(NewHandle, toType, duration, first))
  /\ signals' = Append(CancelledSignals, NoSignal)
  /\ frames' = 0
  /\ calls' = calls + 1
  /\ UNCHANGED <<zoomVars, isTransitioning, currentProjectionType,
                 selectorProjectionType, lastChangeScale, proj, running,
                 inputs, angle, selVars, metricVars, toolVars>>

\* snap(toProjection, toType)
snap(toType) ==
  /\ CallWindow
  /\ transitionState' = [isTransitioning |-> FALSE, progress |-> Q,
                         fromType |-> transitionState.toType, toType |-> toType]
  /\ transitionAnimationId' = 0
  /\ rafQueue' = CancelledQueue(rafQueue)
  /\ signals' = CancelledSignals
  /\ frames' = 0
  /\ calls' = calls + 1
  /\ UNCHANGED <<zoomVars, isTransitioning, currentProjectionType,
                 selectorProjectionType, lastChangeScale, proj, running,
                 inputs, angle, selVars, metricVars, toolVars>>

\* the animate closure of crossFade
CrossFadeFrame(cap) ==
  /\ CurrentFrame # <<>>
  /\ Head(CurrentFrame).kind = "crossFade"
  /\ FrameStart => frames < cap
  /\ LET cb == Head(CurrentFrame)
         rawProgress == Progress(cb.elapsed, cb.duration)
         progress == EaseCubicInOut(rawProgress)
     IN IF TimedContinues(rawProgress)
        THEN /\ transitionState' = [transitionState EXCEPT !.progress = progress]
             /\ transitionAnimationId' = NewHandle
             /\ rafQueue' = Append(NextFrame, [cb EXCEPT !.h = NewHandle])
             /\ UNCHANGED signals
        ELSE /\ transitionState' = [transitionState EXCEPT
                                      !.isTransitioning = FALSE, !.progress = Q]
             /\ rafQueue' = NextFrame
             /\ signals' = Signalled(cb.aid)
             /\ UNCHANGED transitionAnimationId
  /\ running' = Tail(CurrentFrame)
  /\ frames' = IF FrameStart THEN frames + 1 ELSE frames
  /\ UNCHANGED <<zoomVars, isTransitioning, currentProjectionType,
                 selectorProjectionType, lastChangeScale, proj, inputs, calls,
                 angle, selVars, metricVars, toolVars>>

\* ---------------------------------------------------------------- projection changes
\* a projection object neither displayed nor the target of a transition
NewProjectionId ==
  CHOOSE p \in ProjIds :
    /\ p # projection
    /\ \A i \in 1..Len(rafQueue) : rafQueue[i].toProjection # p

\* getViewportState().scale, in units of 1/Micro
ViewportScale == RelativeScale

\* the projection ProjectionSelectorService.setProjectionType(type, width,
\* height, center, scale) creates for the component, from getViewportState():
\* rotated to [-center[0], -center[1], 0], scaled to baseScale * scale
CreatedProjection(type) ==
  [id |-> NewProjectionId,
   scale |-> MulDiv(CalculateBaseScale(type, width, height), ViewportScale, Micro),
   rotate |-> ProjRotate(<<currentRotation[1], currentRotation[2], 0>>)]

\* confirmProjectionChange(result): lastChangeScale, in units of 1/Q
ConfirmedScale(type, scale) == RatioQ(scale, CalculateBaseScale(type, 800, 600))

\* replaceProjection(newProjection, newType), called by the component's
\* setProjectionType(type, false) with the projection the selector created
replaceProjection(newType) ==
  \/ ReturnsEarly
  \/ /\ projection # NoProj
     /\ CallWindow
     /\ LET new == CreatedProjection(newType)
        IN /\ proj' = [proj EXCEPT ![new.id] = [scale |-> new.scale, rotate |-> new.rotate]]
           /\ projection' = new.id
           /\ currentRotation' = new.rotate
           /\ targetRotation' = new.rotate
           /\ currentScale' = new.scale
           /\ targetScale' = new.scale
           /\ lastChangeScale' = ConfirmedScale(newType, new.scale)
     /\ currentProjectionType' = newType
     /\ selectorProjectionType' = newType
     /\ initialScale' = IF dynamicProjectionEnabled
                        THEN CalculateBaseScale(newType, width, height)
                        ELSE initialScale
     /\ frames' = 0
     /\ calls' = calls + 1
     /\ UNCHANGED <<currentCenter, initialCenter, scaleExtent, animationId,
                    scaleVelocity, isDragging, lastMousePos,
                    dynamicProjectionEnabled, projectionCheckTimeout, width,
                    height, isTransitioning, transitionState,
                    transitionAnimationId, rafQueue, running, signals, inputs,
                    angle, selVars, metricVars, toolVars>>

\* applyProjectionChange(newProjection, newType, duration), called by the
\* component's setProjectionType(type, true) with the projection the selector
\* created: returns at once without a transition service or during a
\* transition, and otherwise starts transition(...) and awaits it
applyProjectionChange(newType, duration, first) ==
  \/ ReturnsEarly
  \/ /\ projection # NoProj
     /\ CallWindow
     /\ FreeHandles # {}
     /\ LET new == CreatedProjection(newType)
        IN /\ proj' = [proj EXCEPT ![new.id] = [scale |-> new.scale, rotate |-> new.rotate]]
           /\ lastChangeScale' = ConfirmedScale(newType, new.scale)
           /\ IF ~dynamicProjectionEnabled \/ isTransitioning
              THEN UNCHANGED <<isTransitioning, transitionState,
                               transitionAnimationId, rafQueue, signals>>
              ELSE /\ isTransitioning' = TRUE
                   /\ transitionState' = [isTransitioning |-> TRUE, progress |-> 0,
                                          fromType |-> currentProjectionType,
                                          toType |-> newType]
                   /\ transitionAnimationId' = NewHandle
                   /\ rafQueue' = Append(CancelledQueue(rafQueue),
                                         TransitionCb(NewHandle, new, newType,
                                                      duration, first, TRUE))
                   /\ signals' = Append(CancelledSignals, NoSignal)
     /\ selectorProjectionType' = newType
     /\ frames' = 0
     /\ calls' = calls + 1
     /\ UNCHANGED <<zoomVars, currentProjectionType, running, inputs, angle, selVars, metricVars, toolVars>>

\* createInterpolatedProjection: the rotation handed to baseProjection.rotate
InterpolatedRotation(fromRotation, toRotation, t) ==
  <<interpolateAngle(fromRotation[1], toRotation[1], t),
    interpolateValue(fromRotation[2], toRotation[2], t),
    interpolateValue(fromRotation[3], toRotation[3], t)>>

\* the animate closure of transition; when it completes, the promise
\* resolves and the rest of applyProjectionChange runs before any other
\* callback
TransitionFrame(cap) ==
  /\ CurrentFrame # <<>>
  /\ Head(CurrentFrame).kind = "transition"
  /\ FrameStart => frames < cap
  /\ LET cb == Head(CurrentFrame)
         rawProgress == Progress(cb.elapsed, cb.duration)
         progress == EaseCubicInOut(rawProgress)
         rotation == InterpolatedRotation(cb.fromRotation, cb.toRotation, progress)
         interpolated == [scale |-> interpolateValue(cb.fromScale, cb.toScale, progress),
                          rotate |-> ProjRotate(rotation)]
     IN /\ proj' = [proj EXCEPT ![cb.toProjection] = interpolated]
        /\ IF TimedContinues(rawProgress)
           THEN /\ transitionState' = [transitionState EXCEPT !.progress = progress]
                /\ transitionAnimationId' = NewHandle
                /\ rafQueue' = Append(NextFrame, [cb EXCEPT !.h = NewHandle])
                /\ UNCHANGED <<signals, projection, currentProjectionType,
                               currentRotation, targetRotation, currentScale,
                               targetScale, initialScale, isTransitioning,
                               selectorProjectionType, lastChangeScale>>
           ELSE /\ transitionState' = [transitionState EXCEPT
                                         !.isTransitioning = FALSE, !.progress = Q]
                /\ rafQueue' = NextFrame
                /\ signals' = Signalled(cb.aid)
                /\ UNCHANGED transitionAnimationId
                /\ IF cb.awaited
                   THEN /\ projection' = cb.toProjection
                        /\ currentProjectionType' = cb.toType
                        /\ currentRotation' = interpolated.rotate
                        /\ targetRotation' = interpolated.rotate
                        /\ currentScale' = interpolated.scale
                        /\ targetScale' = interpolated.scale
                        /\ initialScale' = CalculateBaseScale(cb.toType, width, height)
                        /\ selectorProjectionType' = cb.toType
                        /\ lastChangeScale' = ConfirmedScale(cb.toType, interpolated.scale)
                        /\ isTransitioning' = FALSE
                   ELSE UNCHANGED <<projection, currentProjectionType,
                                    currentRotation, targetRotation,
                                    currentScale, targetScale, initialScale,
                                    isTransitioning, selectorProjectionType,
                                    lastChangeScale>>
  /\ running' = Tail(CurrentFrame)
  /\ frames' = IF FrameStart THEN frames + 1 ELSE frames
  /\ UNCHANGED <<currentCenter, initialCenter, scaleExtent, animationId,
                 scaleVelocity, isDragging, lastMousePos,
                 dynamicProjectionEnabled, projectionCheckTimeout, width,
                 height, inputs, calls, angle, selVars, metricVars, toolVars>>

\* ---------------------------------------------------------------- projection selection
HysteresisQ == 3000              \* hysteresis = 0.3
GlobalThresholdQ == 15000        \* scaleThresholds.global = 1.5
RegionalThresholdQ == 60000      \* scaleThresholds.regional = 6
GlobeScaleQ == 8000              \* effectiveScale < 0.8
AutoApplyDuration == 500         \* duration the component hands to applyProjectionChange, ms

\* viewports handed to selectOptimalProjection: scale in units of 1/Q,
\* latitude of the centre in degrees, [width, height]
SelectorScales == {9000, 14000, 16000, 59000, 61000}
SelectorLats == {40, 75}
SelectorViewports == {<<960, 600>>}
SelectorTypes == {"mercator"}                \* types forced with setProjectionType

\* applyHysteresis(scale), scales in units of 1/Q
applyHysteresis(scale) ==
  IF Abs(scale - lastChangeScale) < HysteresisQ THEN lastChangeScale ELSE scale

\* (mutant) the global threshold taken as inclusive
RecommendedTypeInclusive(effectiveScale, absLat) ==
  IF effectiveScale <= GlobalThresholdQ
  THEN IF effectiveScale < GlobeScaleQ THEN "orthographic" ELSE "naturalEarth1"
  ELSE IF effectiveScale > RegionalThresholdQ
       THEN IF absLat > 70 * Deg THEN "stereographic" ELSE "mercator"
       ELSE IF absLat > 60 * Deg THEN "azimuthalEqualArea"
            ELSE IF absLat > 20 * Deg /\ absLat <= 60 * Deg THEN "conicEqualArea"
            ELSE "naturalEarth1"

\* recommendedType of selectOptimalProjection, from the effective scale and
\* the absolute latitude of the centre
RecommendedType(effectiveScale, absLat) ==
  IF effectiveScale < GlobalThresholdQ
  THEN IF effectiveScale < GlobeScaleQ THEN "orthographic" ELSE "naturalEarth1"
  ELSE IF effectiveScale > RegionalThresholdQ
       THEN IF absLat > 70 * Deg THEN "stereographic" ELSE "mercator"
       ELSE IF absLat > 60 * Deg THEN "azimuthalEqualArea"
            ELSE IF absLat > 20 * Deg /\ absLat <= 60 * Deg THEN "conicEqualArea"
            ELSE "naturalEarth1"

\* (mutant) a recommendation announced whatever the active type
IsChangeAlways(recommendedType) == TRUE

\* isChange of selectOptimalProjection
IsChange(recommendedType) == recommendedType # selectorProjectionType

\* what a selectOptimalProjection call returns and announces, with the two
\* calls before it
Selected(scale, lat, vp) ==
  LET effectiveScale == applyHysteresis(scale)
      recommendedType == RecommendedType(effectiveScale, Abs(lat))
  IN [n |-> selection.n + 1, transfer |-> NoTransfer, scale |-> scale, lat |-> lat, viewport |-> vp,
      effective |-> effectiveScale, type |-> recommendedType,
      active |-> selectorProjectionType,
      emitted |-> IsChange(recommendedType),
      sameCentre |-> IF selection.n > 0 /\ selection.lat = lat
                     THEN Min(selection.sameCentre + 1, 2) ELSE 0,
      prevScale |-> selection.scale, prevType |-> selection.type,
      prev2Scale |-> selection.prevScale, prev2Type |-> selection.prevType]

\* (mutant) a recommendation that becomes the active type at once
ActiveTypeCommitted(recommendedType) == recommendedType

\* this.currentProjectionType once selectOptimalProjection has returned: the
\* method reads it and never assigns it
ActiveTypeAfterSelect(recommendedType) == selectorProjectionType

\* selectOptimalProjection(viewport)
selectOptimalProjection(scale, lat, vp) ==
  /\ selection.n < MaxSelections
  /\ selection' = Selected(scale, lat, vp)
  /\ selectorProjectionType' = ActiveTypeAfterSelect(selection'.type)
  /\ UNCHANGED <<zoomVars, isTransitioning, currentProjectionType,
                 transitionState, transitionAnimationId, lastChangeScale,
                 proj, rafQueue, running, signals, frames, inputs, calls,
                 angle, settleCheck, metricVars, toolVars>>

\* scale of the projection selectOptimalProjection and setProjectionType
\* create: baseScale * scale, in micro-pixels
SelectedProjectionScale(projectionType, vp, factor) ==
  MulQ(CalculateBaseScale(projectionType, vp[1], vp[2]), factor)

\* confirmProjectionChange(result), for the result of the last
\* selectOptimalProjection call
confirmProjectionChange ==
  /\ selection.n > 0
  /\ selectorProjectionType' = selection.type
  /\ lastChangeScale' =
       ConfirmedScale(selection.type,
                      SelectedProjectionScale(selection.type, selection.viewport,
                                              selection.scale))
  /\ UNCHANGED <<zoomVars, isTransitioning, currentProjectionType,
                 transitionState, transitionAnimationId, proj, rafQueue,
                 running, signals, frames, inputs, calls, angle, selVars,
                 metricVars, toolVars>>

\* setProjectionType(type, width, height, center, scale), the scale argument
\* being `factor`
setProjectionType(projectionType, vp, factor) ==
  /\ selectorProjectionType' = projectionType
  /\ lastChangeScale' =
       ConfirmedScale(projectionType,
                      SelectedProjectionScale(projectionType, vp, factor))
  /\ UNCHANGED <<zoomVars, isTransitioning, currentProjectionType,
                 transitionState, transitionAnimationId, proj, rafQueue,
                 running, signals, frames, inputs, calls, angle, selVars,
                 metricVars, toolVars>>

\* types handed to transferProjectionState
TransferTypes == {"mercator", "naturalEarth1"}

\* fromType of transferProjectionState: this.currentProjectionType
TransferFromType == selectorProjectionType

\* scale of the projection transferProjectionState returns: toBaseScale *
\* (fromProjection.scale() / fromBaseScale), in micro-pixels
TransferredScale(fromScale, toType, vp) ==
  MulDiv(CalculateBaseScale(toType, vp[1], vp[2]),
         RatioQ(fromScale, CalculateBaseScale(TransferFromType, vp[1], vp[2])),
         Q)

\* transferProjectionState(fromProjection, toType, width, height), for the
\* projection the last selectOptimalProjection call returned and its viewport:
\* the new projection is rotated to [rotation[0], rotation[1], 0]
transferProjectionState(toType) ==
  /\ selection.n > 0
  /\ LET fromScale == SelectedProjectionScale(selection.type, selection.viewport,
                                              selection.scale)
         rotation == <<0, -selection.lat, 0>>
         center == <<-rotation[1], -rotation[2]>>
     IN selection' =
          [selection EXCEPT !.transfer =
             [n |-> 1, active |-> TransferFromType,
              fromType |-> selection.type, fromScale |-> fromScale,
              toType |-> toType,
              scale |-> TransferredScale(fromScale, toType, selection.viewport),
              lat |-> -ProjRotate(<<-center[1], -center[2], 0>>)[2]]]
  /\ UNCHANGED <<zoomVars, isTransitioning, currentProjectionType,
                 transitionState, transitionAnimationId, lastChangeScale,
                 selectorProjectionType, proj, rafQueue, running, signals,
                 frames, inputs, calls, angle, settleCheck, metricVars,
                 toolVars>>

\* getViewportState(): scale in units of 1/Q, latitude of the centre
ViewportScaleQ == ViewportScale \div (Micro \div Q)

ViewportLat == -currentRotation[2]

\* checkProjectionChange() returns null without looking
CheckSkipped == ~dynamicProjectionEnabled \/ isTransitioning

\* (mutant) a settle check that announces every recommendation
CheckDiffersAlways(recommendedType) == TRUE

\* checkProjectionChange(): the recommendation is returned
CheckDiffers(recommendedType) == recommendedType # currentProjectionType

\* the timeout of scheduleProjectionCheck fires: checkProjectionChange(), and
\* onProjectionTypeChange.next(recommendation) if it returned one; the
\* component's handleProjectionTypeRecommendation then applies it when
\* autoApplyProjection and dynamicProjection are set, which starts
\* transition(...) toward the recommended projection
projectionCheckFires(autoApply, first) ==
  /\ projectionCheckTimeout = ScheduleProjectionCheck
  /\ running = <<>>
  /\ projection # NoProj
  /\ FreeHandles # {}
  /\ projectionCheckTimeout' = 0
  /\ frames' = 0
  /\ IF CheckSkipped
     THEN /\ settleCheck' = [n |-> settleCheck.n + 1, type |-> "none",
                             active |-> currentProjectionType, emitted |-> FALSE]
          /\ UNCHANGED <<selection, selectorProjectionType, proj,
                         isTransitioning, transitionState,
                         transitionAnimationId, rafQueue, signals>>
     ELSE LET recommendation == Selected(ViewportScaleQ, ViewportLat, <<width, height>>)
              new == CreatedProjection(recommendation.type)
          IN /\ selection' = recommendation
             /\ selectorProjectionType' = ActiveTypeAfterSelect(recommendation.type)
             /\ settleCheck' = [n |-> settleCheck.n + 1, type |-> recommendation.type,
                                active |-> currentProjectionType,
                                emitted |-> CheckDiffers(recommendation.type)]
             /\ IF CheckDiffers(recommendation.type) /\ autoApply
                THEN /\ proj' = [proj EXCEPT ![new.id] =
                                   [scale |-> new.scale, rotate |-> new.rotate]]
                     /\ isTransitioning' = TRUE
                     /\ transitionState' = [isTransitioning |-> TRUE, progress |-> 0,
                                            fromType |-> currentProjectionType,
                                            toType |-> recommendation.type]
                     /\ transitionAnimationId' = NewHandle
                     /\ rafQueue' = Append(CancelledQueue(rafQueue),
                                           TransitionCb(NewHandle, new, recommendation.type,
                                                        AutoApplyDuration, first, TRUE))
                     /\ signals' = Append(CancelledSignals, NoSignal)
                ELSE UNCHANGED <<proj, isTransitioning, transitionState,
                                 transitionAnimationId, rafQueue, signals>>
  /\ UNCHANGED <<projection, currentScale, currentRotation, targetRotation,
                 currentCenter, initialScale, initialCenter, scaleExtent,
                 animationId, targetScale, scaleVelocity, isDragging,
                 lastMousePos, dynamicProjectionEnabled, width, height,
                 currentProjectionType, lastChangeScale, running, inputs,
                 calls, angle, metricVars, toolVars>>

\* ---------------------------------------------------------------- MetricsService
\* Times are in microseconds and frame rates in thousandths of a frame per
\* second.
MaxHistorySize == 120            \* maxHistorySize = 120
TargetFps == 23000               \* avgFps >= 23

\* what a recordFrame call meets: [time since the previous call, reprojection time]
NominalFrame == <<33333, 5000>>
Frames == {NominalFrame, <<43550, 1250>>, <<0, 5000>>}
StopDelays == {500}              \* time between the last frame of a run and stopBenchmark
BenchmarkViewports == {<<800, 600>>}   \* width, height handed to stopBenchmark

\* Math.round(x / unit) * unit for x >= 0
RoundTo(x, unit) == ((x + unit \div 2) \div unit) * unit

\* sum of f[lo..hi]
RECURSIVE SumRange(_, _, _)
SumRange(f, lo, hi) ==
  IF lo > hi THEN 0
  ELSE IF lo = hi THEN f[lo]
  ELSE SumRange(f, lo, (lo + hi) \div 2) + SumRange(f, (lo + hi) \div 2 + 1, hi)

\* values.reduce((a, b) => a + b, 0)
Sum(values) ==
  CHOOSE s \in {SumRange(f, 1, Len(f)) : f \in {values}} : TRUE

\* Math.min(...values), Math.max(...values)
MinOf(values) ==
  CHOOSE x \in {values[i] : i \in DOMAIN values} :
    \A i \in DOMAIN values : x <= values[i]

MaxOf(values) ==
  CHOOSE x \in {values[i] : i \in DOMAIN values} :
    \A i \in DOMAIN values : x >= values[i]

\* (mutant) a mean that divides by one sample too many
MeanOffByOne(values) == Sum(values) \div (Len(values) + 1)

\* values.reduce((a, b) => a + b, 0) / values.length
Mean(values) == Sum(values) \div Len(values)

\* startBenchmark()
startBenchmark ==
  /\ runs < MaxRuns
  /\ recordCalls <= MaxEarly
  /\ frameHistory' = <<>>
  /\ lastFrameTime' = now
  /\ benchmarkStartTime' = now
  /\ isRunning' = TRUE
  /\ frameCount' = 0
  /\ runs' = runs + 1
  /\ UNCHANGED <<currentFps, currentFrameTime, currentReprojectionTime, now,
                 benchmarkResult, recordCalls>>
  /\ UNCHANGED <<zoomVars, transVars, proj, rafQueue, running, signals,
                 frames, inputs, calls, angle, selVars, toolVars>>

\* (mutant) recordFrame without its guard
RecordingAlways == TRUE

\* recordFrame records only while a benchmark runs
Recording == isRunning

\* the FrameMetrics sample of recordFrame, with the run and the position in
\* the run it was recorded at
Sample(time, reprojectionTime) ==
  LET frameTime == time - lastFrameTime
  IN [frameTime |-> frameTime,
      fps |-> IF frameTime > 0 THEN (1000 * Micro) \div frameTime ELSE 0,
      reprojectionTime |-> reprojectionTime,
      timestamp |-> time,
      run |-> runs, n |-> frameCount + 1]

\* (mutant) a full history that drops its newest sample
PushedDropNewest(history, sample) ==
  IF Len(history) + 1 > MaxHistorySize THEN history ELSE Append(history, sample)

\* frameHistory.push(metrics), then shift() if it grew beyond maxHistorySize
Pushed(history, sample) ==
  IF Len(history) + 1 > MaxHistorySize
  THEN Tail(Append(history, sample))
  ELSE Append(history, sample)

\* the frames a recordFrame call can meet: any of Frames early in a run, the
\* nominal frame afterwards and outside a run
FramesNow ==
  IF isRunning /\ frameCount < MaxVaried THEN Frames ELSE {NominalFrame}

\* recordFrame(reprojectionTime), `elapsed` after the previous call
recordFrame(elapsed, reprojectionTime) ==
  /\ recordCalls < MaxRecords
  /\ isRunning \/ recordCalls < MaxEarly
  /\ now' = now + elapsed
  /\ recordCalls' = recordCalls + 1
  /\ IF ~Recording
     THEN UNCHANGED <<frameHistory, lastFrameTime, frameCount, currentFps,
                      currentFrameTime, currentReprojectionTime>>
     ELSE LET metrics == Sample(now', reprojectionTime)
          IN /\ lastFrameTime' = now'
             /\ frameHistory' = Pushed(frameHistory, metrics)
             /\ currentFps' = RoundTo(metrics.fps, 1000)
             /\ currentFrameTime' = RoundTo(metrics.frameTime, 10)
             /\ currentReprojectionTime' = RoundTo(reprojectionTime, 10)
             /\ frameCount' = frameCount + 1
  /\ UNCHANGED <<isRunning, benchmarkStartTime, benchmarkResult, runs>>
  /\ UNCHANGED <<zoomVars, transVars, proj, rafQueue, running, signals,
                 frames, inputs, calls, angle, selVars, toolVars>>

\* (mutant) an empty run reported as passing
EmptyResultPasses(testName, vp, duration) ==
  [testName |-> testName, totalPixels |-> vp[1] * vp[2], avgFps |-> 0,
   minFps |-> 0, maxFps |-> 0, avgFrameTime |-> 0, avgReprojectionTime |-> 0,
   frameCount |-> 0, duration |-> duration, passesTarget |-> TRUE]

\* the result of stopBenchmark for an empty history
EmptyResult(testName, vp, duration) ==
  [testName |-> testName, totalPixels |-> vp[1] * vp[2], avgFps |-> 0,
   minFps |-> 0, maxFps |-> 0, avgFrameTime |-> 0, avgReprojectionTime |-> 0,
   frameCount |-> 0, duration |-> duration, passesTarget |-> FALSE]

\* the result of stopBenchmark for a history with samples
AggregatedResult(testName, vp, duration) ==
  LET fpsValues == [i \in DOMAIN frameHistory |-> frameHistory[i].fps]
      frameTimeValues == [i \in DOMAIN frameHistory |-> frameHistory[i].frameTime]
      reprojTimeValues == [i \in DOMAIN frameHistory |-> frameHistory[i].reprojectionTime]
      avgFps == Mean(fpsValues)
  IN [testName |-> testName, totalPixels |-> vp[1] * vp[2],
      avgFps |-> RoundTo(avgFps, 100),
      minFps |-> RoundTo(MinOf(fpsValues), 100),
      maxFps |-> RoundTo(MaxOf(fpsValues), 100),
      avgFrameTime |-> RoundTo(Mean(frameTimeValues), 10),
      avgReprojectionTime |-> RoundTo(Mean(reprojTimeValues), 10),
      frameCount |-> Len(frameHistory),
      duration |-> RoundTo(duration, 1000),
      passesTarget |-> avgFps >= TargetFps]

\* the time stopBenchmark is called at: some time after the last frame of
\* the run it ends
StopWaits == IF isRunning THEN StopDelays ELSE {0}

\* stopBenchmark(testName, width, height), `wait` after the previous call
stopBenchmark(testName, vp, wait) ==
  /\ now' = now + wait
  /\ isRunning' = FALSE
  /\ benchmarkResult' =
       IF Len(frameHistory) = 0
       THEN EmptyResult(testName, vp, now' - benchmarkStartTime)
       ELSE AggregatedResult(testName, vp, now' - benchmarkStartTime)
  /\ UNCHANGED <<frameHistory, lastFrameTime, benchmarkStartTime, frameCount,
                 currentFps, currentFrameTime, currentReprojectionTime, runs,
                 recordCalls>>
  /\ UNCHANGED <<zoomVars, transVars, proj, rafQueue, running, signals,
                 frames, inputs, calls, angle, selVars, toolVars>>

\* reset() of MetricsService
resetMetrics ==
  /\ frameHistory' = <<>>
  /\ isRunning' = FALSE
  /\ currentFps' = 0
  /\ currentFrameTime' = 0
  /\ currentReprojectionTime' = 0
  /\ frameCount' = 0
  /\ UNCHANGED <<lastFrameTime, benchmarkStartTime, now, benchmarkResult,
                 runs, recordCalls>>
  /\ UNCHANGED <<zoomVars, transVars, proj, rafQueue, running, signals,
                 frames, inputs, calls, angle, selVars, toolVars>>

\* ---------------------------------------------------------------- ReprojectionService
\* (Transparent, NoImage and NoReprojection are defined with Init.)
\* An ImageData is [width, height, data]: data holds one <<r, g, b, a>> per
\* pixel in the order of the RGBA byte array, pixel (x, y) at y * width + x.

\* new ImageData(w, h): every byte is zero
ImageData(w, h) ==
  [width |-> w, height |-> h, data |-> [i \in 1..(w * h) |-> Transparent]]

PixelAt(img, x, y) == img.data[y * img.width + x + 1]

\* source images of the benchmark: opaque tiles of two sizes and a plain red one
Tile(w, h) ==
  [width |-> w, height |-> h,
   data |-> [i \in 1..(w * h) |->
               <<40 * ((i - 1) % w), 60 * ((i - 1) \div w), 200, 255>>]]
Red(w, h) ==
  [width |-> w, height |-> h, data |-> [i \in 1..(w * h) |-> <<255, 0, 0, 255>>]]
SourceImages == {Tile(4, 4), Tile(2, 3), Red(4, 4)}
TargetSizes == {<<8, 4>>, <<4, 4>>, <<6, 3>>, <<2, 3>>}   \* [targetWidth, targetHeight]
ReprojectionScales == {5000, 10000, 15000}                \* scale, 1/Q
CenterLons == {0, 45 * Deg}                               \* centerLon
CenterLats == {0, 40 * Deg, 40050000}                     \* centerLat: 0, 40, 40.05

\* resizeCanvas of the benchmark component: a new source image
createSampleTileImage(img) ==
  /\ sourceData' = img
  /\ UNCHANGED reprojectionResult
  /\ UNCHANGED <<engineVars, tissot, ctrlVars, interpolation>>

\* targetProjection.invert([x, y]) for d3.geoEquirectangular() with scale
\* targetWidth / (2 pi) * scale, translate [targetWidth / 2, targetHeight / 2]
\* and center [centerLon, centerLat]: <<lon, lat>> in micro-degrees.  One
\* pixel is 360 / (targetWidth * scale) degrees; the longitude is brought
\* back into [-180, 180] by the identity rotation (one turn is enough for the
\* scales used here), the latitude is not.  The inverse is defined at every
\* pixel.
Invert(x, y, tw, th, scale, centerLon, centerLat) ==
  LET lon == MulDiv((2 * x - tw) * 180 * Micro, Q, tw * scale) + centerLon
      lat == MulDiv((th - 2 * y) * 180 * Micro, Q, tw * scale) + centerLat
  IN <<IF lon > 180 * Deg THEN lon - 360 * Deg
       ELSE IF lon < -180 * Deg THEN lon + 360 * Deg ELSE lon,
       lat>>

\* (1 - Math.log(Math.tan(Math.PI / 4 + latRad / 2)) / Math.PI) / 2 in units
\* of 1/Micro, evaluated at the latitudes the target grids above produce:
\* <<latitude, "nan" or "num", value>>.  The logarithm of a negative tangent
\* is NaN; an infinite value is entered as 100.
MercatorTable ==
  {<<-180000000, "nan", 0>>, <<-140000000, "nan", 0>>,
   <<-139950000, "nan", 0>>, <<-90000000, "num", 100000000>>,
   <<-60000000, "num", 709600>>, <<-50000000, "num", 660855>>,
   <<-49950000, "num", 660639>>, <<-45000000, "num", 640274>>,
   <<-30000000, "num", 587424>>, <<-20000000, "num", 556719>>,
   <<-19950000, "num", 556571>>, <<-5000000, "num", 513906>>,
   <<-4950000, "num", 513767>>, <<0, "num", 500000>>,
   <<10000000, "num", 472080>>, <<10050000, "num", 471939>>,
   <<20000000, "num", 443280>>, <<20050000, "num", 443132>>,
   <<30000000, "num", 412575>>, <<40000000, "num", 378579>>,
   <<40050000, "num", 378397>>, <<45000000, "num", 359725>>,
   <<60000000, "num", 290399>>, <<60050000, "num", 290121>>,
   <<70000000, "num", 223800>>, <<70050000, "num", 223393>>,
   <<85000000, "num", 1637>>, <<85050000, "num", 36>>,
   <<90000000, "num", -5441550>>, <<100000000, "nan", 0>>,
   <<100050000, "nan", 0>>, <<120000000, "nan", 0>>,
   <<130000000, "nan", 0>>, <<130050000, "nan", 0>>,
   <<160000000, "nan", 0>>, <<160050000, "nan", 0>>,
   <<180000000, "nan", 0>>, <<220000000, "nan", 0>>,
   <<220050000, "nan", 0>>, <<270000000, "nan", 0>>,
   <<310000000, "num", 660855>>, <<310050000, "num", 660639>>,
   <<360000000, "num", 500000>>, <<400000000, "num", 378579>>,
   <<400050000, "num", 378397>>, <<540000000, "nan", 0>>,
   <<580000000, "nan", 0>>, <<580050000, "nan", 0>>}

\* mercX and mercY in micro-pixels of the source; mercY is <<"nan", 0>> or
\* <<"num", value>>
MercX(lon, srcWidth) == ((lon + 180 * Deg) * srcWidth) \div 360
MercY(lat, srcHeight) ==
  LET row == CHOOSE r \in MercatorTable : r[1] = lat
  IN <<row[2], row[3] * srcHeight>>

\* the valid range of a Mercator source
InMercatorDomainPole(lon, lat) ==
  ~(lat < -90 * Deg \/ lat > 90 * Deg) /\ ~(lon < -180 * Deg \/ lon > 180 * Deg)
InMercatorDomain(lon, lat) ==
  ~(lat < -85 * Deg \/ lat > 85 * Deg) /\ ~(lon < -180 * Deg \/ lon > 180 * Deg)

\* Math.round of a non-negative number of micro-units
RoundMicro(v) == (v + Micro \div 2) \div Micro

\* the target pixel (x, y) of reprojectMercatorToEquirectangular.  A NaN
\* mercY passes the bounds check (every comparison is false) and reads
\* srcData[NaN], undefined, which the byte array stores as 0.
NearestPixelRounded(src, x, y, tw, th, scale, centerLon, centerLat) ==
  LET lonLat == Invert(x, y, tw, th, scale, centerLon, centerLat)
      mercX == MercX(lonLat[1], src.width)
      mercY == MercY(lonLat[2], src.height)
  IN IF ~InMercatorDomain(lonLat[1], lonLat[2]) THEN Transparent
     ELSE IF mercY[1] = "nan" THEN Transparent
     ELSE IF mercX < 0 \/ mercX >= src.width * Micro \/
             mercY[2] < 0 \/ mercY[2] >= src.height * Micro THEN Transparent
     ELSE PixelAt(src, Min(RoundMicro(mercX), src.width - 1),
                  Min(RoundMicro(mercY[2]), src.height - 1))
NearestPixel(src, x, y, tw, th, scale, centerLon, centerLat) ==
  LET lonLat == Invert(x, y, tw, th, scale, centerLon, centerLat)
      mercX == MercX(lonLat[1], src.width)
      mercY == MercY(lonLat[2], src.height)
  IN IF ~InMercatorDomain(lonLat[1], lonLat[2]) THEN Transparent
     ELSE IF mercY[1] = "nan" THEN Transparent
     ELSE IF mercX < 0 \/ mercX >= src.width * Micro \/
             mercY[2] < 0 \/ mercY[2] >= src.height * Micro THEN Transparent
     ELSE PixelAt(src, mercX \div Micro, mercY[2] \div Micro)

\* one channel of the bilinear blend: Math.round(v0 + (v1 - v0) * yFrac) with
\* v0 = v00 + (v10 - v00) * xFrac and v1 = v01 + (v11 - v01) * xFrac
Blend(v00, v10, v01, v11, xFrac, yFrac) ==
  LET v0 == v00 * Micro + (v10 - v00) * xFrac
      v1 == v01 * Micro + (v11 - v01) * xFrac
  IN RoundMicro(v0 + MulDiv(v1 - v0, yFrac, Micro))

\* srcData[(y * srcWidth + x) * 4 + c] for the four channels: an index past
\* the end of the byte array reads undefined, entered as <<-1, -1, -1, -1>>
Undefined == <<0 - 1, 0 - 1, 0 - 1, 0 - 1>>
SourcePixel(src, x, y) ==
  IF y * src.width + x + 1 \in 1..Len(src.data) THEN PixelAt(src, x, y)
  ELSE Undefined

\* (mutant) the bounds check of the nearest-neighbour method
InSourceWhole(mercX, mercY, src) ==
  ~(mercX < 0 \/ mercX >= src.width * Micro \/
    mercY < 0 \/ mercY >= src.height * Micro)

\* the bounds check of reprojectWithBilinear, mercX and mercY in micro-pixels
InSourceInterior(mercX, mercY, src) ==
  ~(mercX < 0 \/ mercX >= (src.width - 1) * Micro \/
    mercY < 0 \/ mercY >= (src.height - 1) * Micro)

\* what reprojectWithBilinear works out for the target pixel (x, y) before it
\* reads the source: whether the pixel is sampled, the corner <<x0, y0>> and
\* the fractions in micro-pixels
BilinearSample(src, x, y, tw, th, scale, centerLon, centerLat) ==
  LET lonLat == Invert(x, y, tw, th, scale, centerLon, centerLat)
      mercX == MercX(lonLat[1], src.width)
      mercY == MercY(lonLat[2], src.height)
      x0 == mercX \div Micro
      y0 == mercY[2] \div Micro
  IN IF ~InMercatorDomain(lonLat[1], lonLat[2]) \/ mercY[1] = "nan"
     THEN [sampled |-> FALSE, x0 |-> 0, y0 |-> 0, xFrac |-> 0, yFrac |-> 0]
     ELSE [sampled |-> InSourceInterior(mercX, mercY[2], src),
           x0 |-> x0, y0 |-> y0,
           xFrac |-> mercX - x0 * Micro, yFrac |-> mercY[2] - y0 * Micro]

\* the target pixel (x, y) of reprojectWithBilinear; a blend with an
\* undefined neighbour is NaN, which the byte array stores as 0
BilinearPixel(src, x, y, tw, th, scale, centerLon, centerLat) ==
  LET s == BilinearSample(src, x, y, tw, th, scale, centerLon, centerLat)
      v00 == SourcePixel(src, s.x0, s.y0)
      v10 == SourcePixel(src, s.x0 + 1, s.y0)
      v01 == SourcePixel(src, s.x0, s.y0 + 1)
      v11 == SourcePixel(src, s.x0 + 1, s.y0 + 1)
  IN IF ~s.sampled THEN Transparent
     ELSE IF Undefined \in {v00, v10, v01, v11} THEN Transparent
     ELSE [c \in 1..4 |-> Blend(v00[c], v10[c], v01[c], v11[c], s.xFrac, s.yFrac)]

\* reprojectMercatorToEquirectangular(sourceData, targetWidth, targetHeight,
\* scale, centerLon, centerLat), called by runBenchmarkFrame once a source
\* image exists
reprojectMercatorToEquirectangular(tw, th, scale, centerLon, centerLat) ==
  /\ sourceData # NoImage
  /\ reprojectionResult' =
       [op |-> "nearest", source |-> sourceData, scale |-> scale,
        centerLon |-> centerLon, centerLat |-> centerLat,
        imageData |->
          [ImageData(tw, th) EXCEPT !.data =
             [i \in 1..(tw * th) |->
                NearestPixel(sourceData, (i - 1) % tw, (i - 1) \div tw, tw, th,
                             scale, centerLon, centerLat)]]]
  /\ UNCHANGED sourceData
  /\ UNCHANGED <<engineVars, tissot, ctrlVars, interpolation>>

\* reprojectWithBilinear(sourceData, targetWidth, targetHeight, scale,
\* centerLon, centerLat)
reprojectWithBilinear(tw, th, scale, centerLon, centerLat) ==
  /\ sourceData # NoImage
  /\ reprojectionResult' =
       [op |-> "bilinear", source |-> sourceData, scale |-> scale,
        centerLon |-> centerLon, centerLat |-> centerLat,
        imageData |->
          [ImageData(tw, th) EXCEPT !.data =
             [i \in 1..(tw * th) |->
                BilinearPixel(sourceData, (i - 1) % tw, (i - 1) \div tw, tw, th,
                              scale, centerLon, centerLat)]]]
  /\ UNCHANGED sourceData
  /\ UNCHANGED <<engineVars, tissot, ctrlVars, interpolation>>

\* the bytes baselineCopy writes: those below both lengths, in buffer order
CopiedByRow(src, tw, th) ==
  [i \in 1..(tw * th) |->
     LET x == (i - 1) % tw
         y == (i - 1) \div tw
     IN IF x < src.width /\ y < src.height THEN PixelAt(src, x, y)
        ELSE Transparent]
Copied(src, tw, th) ==
  [i \in 1..(tw * th) |->
     IF i <= Len(src.data) THEN src.data[i] ELSE Transparent]

\* baselineCopy(sourceData, targetWidth, targetHeight)
baselineCopy(tw, th) ==
  /\ sourceData # NoImage
  /\ reprojectionResult' =
       [op |-> "baseline", source |-> sourceData, scale |-> 0,
        centerLon |-> 0, centerLat |-> 0,
        imageData |->
          [ImageData(tw, th) EXCEPT !.data = Copied(sourceData, tw, th)]]
  /\ UNCHANGED sourceData
  /\ UNCHANGED <<engineVars, tissot, ctrlVars, interpolation>>

\* ---------------------------------------------------------------- TissotIndicatrixService
\* Derivatives (pixels per degree), the metric tensor and the eigenvalues are
\* in units of 1/Milli, and every product and square root is rounded to the
\* nearest unit, as each floating-point operation of the code is rounded to
\* the nearest double.
Milli == 10 * 100
AngularDeg == 450                \* (50000 / EARTH_RADIUS) * RAD2DEG = 0.4497 degrees

\* v / d rounded to the nearest integer (d > 0)
RoundDiv(v, d) == Sgn(v) * ((Abs(v) + d \div 2) \div d)
MulMilli(x, y) == RoundDiv(x * y, Milli)

\* the largest r in lo..hi with r * r <= n
RECURSIVE SqrtFloor(_, _, _)
SqrtFloor(n, lo, hi) ==
  IF lo >= hi THEN lo
  ELSE LET mid == (lo + hi + 1) \div 2
       IN IF mid * mid <= n THEN SqrtFloor(n, mid, hi)
          ELSE SqrtFloor(n, lo, mid - 1)

\* Math.sqrt(v) for v >= 0 in units of 1/Milli
SqrtMilli(v) ==
  LET n == v * Milli
      r == SqrtFloor(n, 0, 46340)
  IN IF r * r + r < n THEN r + 1 ELSE r

\* What a projection gives at a grid point: whether a projected point is NaN
\* (or null), and the difference quotients <<dx_dlon, dy_dlon, dx_dlat,
\* dy_dlat>>.  An equirectangular point, a Mercator-like point, an oblique
\* point, and three points on the limb of a tilted orthographic projection,
\* where both quotient vectors are vertical.
TissotSamples ==
  {[nan |-> FALSE, j |-> <<2094, 0, 0, -2094>>],
   [nan |-> FALSE, j |-> <<2094, 0, 0, -3000>>],
   [nan |-> FALSE, j |-> <<907, 537, 907, -1883>>],
   [nan |-> FALSE, j |-> <<0, 600, 0, -2000>>],
   [nan |-> FALSE, j |-> <<0, 600, 0, -1999>>],
   [nan |-> TRUE, j |-> <<0, 0, 0, 0>>]}
GridSpacings == {90, 120}        \* config.gridSpacing, degrees

\* the grid of generateTissotCircles in the order of its two loops: <<lon, lat>>
GridPoints(gridSpacing) ==
  LET nlon == (360 + gridSpacing - 1) \div gridSpacing
      nlat == (180 + gridSpacing - 1) \div gridSpacing - 1
  IN [n \in 1..(nlon * nlat) |->
        <<-180 + gridSpacing * ((n - 1) % nlon),
          -90 + gridSpacing * (1 + (n - 1) \div nlon)>>]

NoCircle == [longitude |-> 0, latitude |-> 0, majorAxis |-> 0, minorAxis |-> 0,
             determinant |-> 0, discriminant |-> 0, null |-> TRUE]

\* the determinant of the metric tensor
Determinant(a, b, c) == MulMilli(a, c) - MulMilli(b, b)

\* Math.sqrt(lambda) * angularDeg for twice the eigenvalue; the square root
\* of a negative number is NaN, entered as -1
Axis(lambda2x) ==
  IF lambda2x < 0 THEN -1
  ELSE MulMilli(SqrtMilli(lambda2x \div 2), AngularDeg)

\* calculateTissotIndicatrix(projection, lon, lat, radiusMeters) for the
\* default radius.  trace / 2 and (trace * trace) / 4 are exact in binary, so
\* the eigenvalues are kept doubled.  The circle carries the determinant and
\* the discriminant it passed; its rotation angle is left out.
calculateTissotIndicatrix(sample, lon, lat) ==
  LET dx_dlon == sample.j[1]
      dy_dlon == sample.j[2]
      dx_dlat == sample.j[3]
      dy_dlat == sample.j[4]
      a == MulMilli(dx_dlon, dx_dlon) + MulMilli(dy_dlon, dy_dlon)
      c == MulMilli(dx_dlat, dx_dlat) + MulMilli(dy_dlat, dy_dlat)
      b == MulMilli(dx_dlon, dx_dlat) + MulMilli(dy_dlon, dy_dlat)
      trace == a + c
      determinant == Determinant(a, b, c)
      discriminant == RoundDiv(trace * trace, 4 * Milli) - determinant
      root == SqrtMilli(discriminant)
  IN IF sample.nan THEN NoCircle
     ELSE IF determinant <= 0 \/ trace < 0 THEN NoCircle
     ELSE IF discriminant < 0 THEN NoCircle
     ELSE [longitude |-> lon, latitude |-> lat,
           majorAxis |-> Axis(trace + 2 * root),
           minorAxis |-> Axis(trace - 2 * root),
           determinant |-> determinant, discriminant |-> discriminant,
           null |-> FALSE]

\* generateTissotCircles(projection, {gridSpacing}): the projection is given
\* by what it yields at each grid point
generateTissotCircles(gridSpacing, geoProjection) ==
  /\ tissot' =
       [gridSpacing |-> gridSpacing, projection |-> geoProjection, done |-> TRUE,
        loop |-> NoLoop,
        circles |->
          SelectSeq([n \in DOMAIN GridPoints(gridSpacing) |->
                       calculateTissotIndicatrix(geoProjection[n],
                                                 GridPoints(gridSpacing)[n][1],
                                                 GridPoints(gridSpacing)[n][2])],
                    LAMBDA circle : ~circle.null)]
  /\ UNCHANGED <<engineVars, reprojVars, ctrlVars, interpolation>>

\* The two loops of generateTissotCircles, one iteration at a time, for the
\* spacings that decide how far they run.  loop.samples are the <<lon, lat>>
\* handed to calculateTissotIndicatrix; the list returned holds at most one
\* circle for each of them.
MaxGridIterations == 6           \* iterations followed when a loop does not end
GridLoopSpacings == GridSpacings \cup {0 - 90, 0, 30, 50}

\* generateTissotCircles is entered: let lat = -90 + settings.gridSpacing
GridLoopStart(gridSpacing) ==
  /\ tissot = NoTissot
  /\ tissot' = [NoTissot EXCEPT !.gridSpacing = gridSpacing,
                                !.loop = [pc |-> "lat", lat |-> -90 + gridSpacing,
                                          lon |-> 0, samples |-> <<>>]]
  /\ UNCHANGED <<engineVars, reprojVars, ctrlVars, interpolation>>

\* (mutant) a latitude loop that takes the pole in
LatContinuesToPole(lat, gridSpacing) == lat <= 90

\* the condition of the outer loop
LatContinues(lat, gridSpacing) == lat < 90

\* the test of the outer loop: lat < 90 enters the inner loop with
\* let lon = -180, otherwise the method returns
GridLatTest ==
  /\ tissot.loop.pc = "lat"
  /\ tissot' =
       IF LatContinues(tissot.loop.lat, tissot.gridSpacing)
       THEN [tissot EXCEPT !.loop.pc = "lon", !.loop.lon = -180]
       ELSE [tissot EXCEPT !.loop.pc = "returned", !.done = TRUE]
  /\ UNCHANGED <<engineVars, reprojVars, ctrlVars, interpolation>>

\* the test of the inner loop: lon < 180 takes a sample and adds gridSpacing
\* to lon, otherwise gridSpacing is added to lat
GridLonTest ==
  /\ tissot.loop.pc = "lon"
  /\ tissot' =
       IF tissot.loop.lon < 180
       THEN [tissot EXCEPT !.loop.samples =
                             Append(@, <<tissot.loop.lon, tissot.loop.lat>>),
                           !.loop.lon = @ + tissot.gridSpacing]
       ELSE [tissot EXCEPT !.loop.pc = "lat", !.loop.lat = @ + tissot.gridSpacing]
  /\ UNCHANGED <<engineVars, reprojVars, ctrlVars, interpolation>>

\* ---------------------------------------------------------------- AnimationControllerService
\* A sequence is its number of steps and its loop flag; the extents and
\* durations of the steps do not decide what the controller does.  The
\* zoomTo and panTo the controller calls on GeoZoomService are animations
\* that end by calling their callback, as animateTo does; nothing the
\* controller does cancels one.
SequenceLengths == {1, 2}
Sequences == {[steps |-> n, loop |-> l] : n \in SequenceLengths, l \in BOOLEAN}

\* entry of stepLog written by handleSequenceEnd
EndOfPass == 0 - 1

\* (mutant) stop() that leaves the step index where the sequence ended
StoppedAtStep(c) ==
  [c EXCEPT !.isPlaying = FALSE, !.fps = 0, !.frameCount = 0]

\* stop(): isPlaying, currentStepIndex and stopFpsMonitoring
Stopped(c) ==
  [c EXCEPT !.isPlaying = FALSE, !.currentStepIndex = 0, !.fps = 0,
            !.frameCount = 0]

handleSequenceEnd(c, timers, log) ==
  /\ controller' = IF c.currentSequence.loop
                   THEN [c EXCEPT !.currentStepIndex = 0]
                   ELSE Stopped(c)
  /\ stepTimers' = IF c.currentSequence.loop THEN timers + 1 ELSE timers
  /\ stepLog' = Append(log, EndOfPass)
  /\ UNCHANGED <<stepAnimations, fpsMonitors, starts>>

\* executeStep(element) run on the fields c, with timers executeStep timers
\* left and log the steps of the pass so far: startFpsMonitoring calls
\* monitorFps at once, which counts one frame and registers itself, and
\* animateToExtent starts with zoomTo
executeStep(c, timers, log) ==
  IF c.currentSequence = NoSequence \/ ~c.isPlaying
  THEN /\ controller' = c
       /\ stepTimers' = timers
       /\ stepLog' = log
       /\ UNCHANGED <<stepAnimations, fpsMonitors, starts>>
  ELSE IF c.currentStepIndex >= c.currentSequence.steps
  THEN handleSequenceEnd(c, timers, log)
  ELSE /\ starts < MaxStarts
       /\ controller' = [c EXCEPT !.frameCount = 1]
       /\ fpsMonitors' = fpsMonitors + 1
       /\ stepAnimations' =
            Append(stepAnimations, [step |-> c.currentStepIndex, stage |-> "zoomTo"])
       /\ stepLog' =
            IF log # <<>> /\ log[Len(log)] = EndOfPass
            THEN <<c.currentStepIndex>>
            ELSE Append(log, c.currentStepIndex)
       /\ starts' = starts + 1
       /\ stepTimers' = timers

ControllerCall ==
  /\ controllerCalls < MaxControllerCalls
  /\ controllerCalls' = controllerCalls + 1
  /\ UNCHANGED <<engineVars, reprojVars, tissot, interpolation>>

playSequence(sequence) ==
  /\ ControllerCall
  /\ executeStep([controller EXCEPT !.currentSequence = sequence,
                                    !.currentStepIndex = 0,
                                    !.isPlaying = TRUE],
                 stepTimers, <<>>)

stop ==
  /\ ControllerCall
  /\ controller' = Stopped(controller)
  /\ stepLog' = <<>>
  /\ UNCHANGED <<stepAnimations, stepTimers, fpsMonitors, starts>>

pause ==
  /\ ControllerCall
  /\ controller' = [controller EXCEPT !.isPlaying = FALSE]
  /\ UNCHANGED <<stepAnimations, stepTimers, fpsMonitors, stepLog, starts>>

resume ==
  /\ ControllerCall
  /\ IF controller.currentSequence # NoSequence /\ ~controller.isPlaying
     THEN executeStep([controller EXCEPT !.isPlaying = TRUE], stepTimers, stepLog)
     ELSE UNCHANGED <<controller, stepAnimations, stepTimers, fpsMonitors,
                      stepLog, starts>>

\* the zoomTo of step animation i ends: its callback calls panTo
ZoomToDone(i) ==
  /\ i \in 1..Len(stepAnimations)
  /\ stepAnimations[i].stage = "zoomTo"
  /\ stepAnimations' = [stepAnimations EXCEPT ![i].stage = "panTo"]
  /\ UNCHANGED <<engineVars, reprojVars, tissot, interpolation, controller, stepTimers,
                 fpsMonitors, stepLog, starts, controllerCalls>>

\* the panTo of step animation i ends: the callback executeStep handed to
\* animateToExtent stops the monitoring, moves to the next step and sets the
\* timer of the next executeStep
PanToDone(i) ==
  /\ i \in 1..Len(stepAnimations)
  /\ stepAnimations[i].stage = "panTo"
  /\ stepAnimations' =
       [k \in 1..(Len(stepAnimations) - 1) |->
          IF k < i THEN stepAnimations[k] ELSE stepAnimations[k + 1]]
  /\ controller' = [controller EXCEPT !.fps = 0, !.frameCount = 0,
                                      !.currentStepIndex = @ + 1]
  /\ stepTimers' = stepTimers + 1
  /\ UNCHANGED <<engineVars, reprojVars, tissot, interpolation, fpsMonitors, stepLog, starts,
                 controllerCalls>>

\* a timer set by the step callback or by handleSequenceEnd fires
StepTimerFires ==
  /\ stepTimers > 0
  /\ executeStep(controller, stepTimers - 1, stepLog)
  /\ UNCHANGED <<engineVars, reprojVars, tissot, interpolation, controllerCalls>>

\* a registered monitorFps callback runs; elapsed: 500 ms have passed since
\* lastFrameTime, after frameCount + 1 frames
monitorFps(elapsed) ==
  /\ fpsMonitors > 0
  /\ IF ~controller.isPlaying
     THEN /\ fpsMonitors' = fpsMonitors - 1
          /\ UNCHANGED controller
     ELSE /\ elapsed \/ controller.frameCount < MaxFrameCount
          /\ controller' =
               IF elapsed
               THEN [controller EXCEPT !.fps = 2 * (controller.frameCount + 1),
                                       !.frameCount = 0]
               ELSE [controller EXCEPT !.frameCount = @ + 1]
          /\ UNCHANGED fpsMonitors
  /\ UNCHANGED <<engineVars, reprojVars, tissot, interpolation, stepAnimations, stepTimers,
                 stepLog, starts, controllerCalls>>

\* ---------------------------------------------------------------- specifications
\* interactive zooming and panning only: init, wheel, mouse, touch, frames
NextZoom ==
  \/ \E type \in InitialTypes, vp \in Viewports, ext \in Extents, dyn \in BOOLEAN :
       init(type, vp, ext, dyn)
  \/ \E pt \in Points : handleMouseDown(pt)
  \/ \E pt \in Points : handleMouseMove(pt)
  \/ handleMouseUp
  \/ \E d \in WheelDeltas : handleWheel(d)
  \/ \E pt \in Points : handleTouchStart(pt)
  \/ \E pt \in Points : handleTouchMove(pt)
  \/ handleTouchEnd
  \/ \E sc \in ArgScales : calls < MaxSmoothCalls /\ setScale(sc, TRUE)
  \/ LoopFrame(SettleCap)

SpecZoom == Init /\ [][NextZoom]_vars

\* every operation of the engine
Next ==
  \/ \E type \in InitialTypes, vp \in Viewports, ext \in Extents, dyn \in BOOLEAN :
       init(type, vp, ext, dyn)
  \/ \E pt \in Points : handleMouseDown(pt)
  \/ \E pt \in Points : handleMouseMove(pt)
  \/ handleMouseUp
  \/ \E d \in WheelDeltas : handleWheel(d)
  \/ \E pt \in Points : handleTouchStart(pt)
  \/ \E pt \in Points : handleTouchMove(pt)
  \/ handleTouchEnd
  \/ LoopFrame(MaxFrames)
  \/ \E c \in Centers : setCenter(<<c[1] * Deg, c[2] * Deg>>)
  \/ \E sc \in ArgScales, tr \in BOOLEAN : setScale(sc, tr)
  \/ \E c \in Centers, sc \in ArgScales, d \in Durations, f \in FirstElapsed :
       animateTo(<<c[1] * Deg, c[2] * Deg>>, sc, d, f)
  \/ \E d \in Durations, f \in FirstElapsed : reset(d, f)
  \/ AnimateToFrame(MaxFrames)
  \/ \E t \in SwitchTypes : replaceProjection(t)
  \/ \E t \in SwitchTypes, d \in AnimatedDurations, f \in FirstElapsed :
       applyProjectionChange(t, d, f)
  \/ TransitionFrame(MaxFrames)
  \/ \E t \in SwitchTypes, d \in AnimatedDurations, f \in FirstElapsed :
       crossFade(currentProjectionType, t, d, f)
  \/ \E t \in SwitchTypes : snap(t)
  \/ CrossFadeFrame(MaxFrames)

Spec == Init /\ [][Next]_vars

\* interpolateAngle applied once to each choice of arguments
InitAngle ==
  /\ InitEngine
  /\ InitSelector
  /\ InitMetrics
  /\ InitTools
  /\ angle \in {[from |-> f * Deg, to |-> g * Deg, t |-> t, done |-> FALSE, result |-> 0] :
                  f \in Angles, g \in Angles, t \in AngleTs}

ApplyInterpolateAngle ==
  /\ ~angle.done
  /\ angle' = [angle EXCEPT !.done = TRUE,
                            !.result = interpolateAngle(angle.from, angle.to, angle.t)]
  /\ UNCHANGED <<zoomVars, transVars, proj, rafQueue, running, signals,
                 frames, inputs, calls, selVars, metricVars, toolVars>>

NextAngle == ApplyInterpolateAngle

SpecAngle == InitAngle /\ [][NextAngle]_vars

\* ProjectionSelectorService on its own: recommendations, confirmations and
\* forced types
NextSelector ==
  \/ \E sc \in SelectorScales, lat \in SelectorLats, vp \in SelectorViewports :
       selectOptimalProjection(sc, lat * Deg, vp)
  \/ confirmProjectionChange
  \/ \E t \in SelectorTypes, vp \in SelectorViewports, sc \in SelectorScales :
       setProjectionType(t, vp, sc)

SpecSelector == Init /\ [][NextSelector]_vars

\* view transfers between recommendations and confirmations
MaxTransferSelections == 2

NextTransfer ==
  \/ \E sc \in SelectorScales, lat \in SelectorLats, vp \in SelectorViewports :
       selection.n < MaxTransferSelections /\ selectOptimalProjection(sc, lat * Deg, vp)
  \/ confirmProjectionChange
  \/ \E t \in TransferTypes : transferProjectionState(t)

SpecTransfer == Init /\ [][NextTransfer]_vars

\* wheel zooming with dynamic projection selection: the loop settles, the
\* debounced check runs and the component applies what it recommends
NextSettle ==
  \/ \E type \in InitialTypes, vp \in Viewports, ext \in Extents, dyn \in BOOLEAN :
       init(type, vp, ext, dyn)
  \/ \E d \in WheelDeltas : handleWheel(d)
  \/ LoopFrame(SettleCap)
  \/ \E autoApply \in BOOLEAN, f \in FirstElapsed : projectionCheckFires(autoApply, f)
  \/ TransitionFrame(SettleCap)

SpecSettle == Init /\ [][NextSettle]_vars

\* selectOptimalProjection applied once to each viewport of a grid
ClassifyScales ==
  {k * 500 : k \in 1..140} \cup {7999, 8001, 14999, 15001, 59999, 60001}

ClassifyLats ==
  {k * 5 * Deg : k \in -18..18}
    \cup {20 * Deg + 1, 60 * Deg + 1, 70 * Deg + 1, -(20 * Deg + 1), -(70 * Deg + 1)}

InitClassify ==
  /\ InitEngine
  /\ angle = AngleIdle
  /\ InitMetrics
  /\ InitTools
  /\ settleCheck = NoCheck
  /\ selection \in {[NoSelection EXCEPT !.scale = sc, !.lat = lat] :
                      sc \in ClassifyScales, lat \in ClassifyLats}

ApplySelectOptimalProjection ==
  /\ selection.n = 0
  /\ \E vp \in SelectorViewports :
       selectOptimalProjection(selection.scale, selection.lat, vp)

NextClassify == ApplySelectOptimalProjection

SpecClassify == InitClassify /\ [][NextClassify]_vars

\* MetricsService on its own
NextMetrics ==
  \/ startBenchmark
  \/ \E f \in FramesNow : recordFrame(f[1], f[2])
  \/ \E vp \in BenchmarkViewports, wait \in StopWaits : stopBenchmark("test", vp, wait)
  \/ resetMetrics

SpecMetrics == Init /\ [][NextMetrics]_vars

\* ReprojectionService on its own, driven as the benchmark component drives
\* it; the reprojections are functions of their arguments, so one source
\* image and one reprojection per behaviour cover them
NextReproject ==
  \/ \E img \in SourceImages :
       sourceData = NoImage /\ createSampleTileImage(img)
  \/ \E size \in TargetSizes, scale \in ReprojectionScales,
        centerLon \in CenterLons, centerLat \in CenterLats :
       /\ reprojectionResult = NoReprojection
       /\ reprojectMercatorToEquirectangular(size[1], size[2], scale, centerLon, centerLat)
  \/ \E size \in TargetSizes, scale \in ReprojectionScales,
        centerLon \in CenterLons, centerLat \in CenterLats :
       /\ reprojectionResult = NoReprojection
       /\ reprojectWithBilinear(size[1], size[2], scale, centerLon, centerLat)
  \/ \E size \in TargetSizes :
       reprojectionResult = NoReprojection /\ baselineCopy(size[1], size[2])

SpecReproject == Init /\ [][NextReproject]_vars

\* TissotIndicatrixService on its own: one call per behaviour, for every
\* grid spacing and every assignment of samples to the grid points
NextTissot ==
  \E gridSpacing \in GridSpacings :
    \E geoProjection \in [DOMAIN GridPoints(gridSpacing) -> TissotSamples] :
      ~tissot.done /\ generateTissotCircles(gridSpacing, geoProjection)

SpecTissot == Init /\ [][NextTissot]_vars

\* the sampling grid of generateTissotCircles, iteration by iteration; a loop
\* that takes more than MaxGridIterations samples at one latitude without its
\* longitude advancing is not followed further
NextGrid ==
  \/ \E gridSpacing \in GridLoopSpacings : GridLoopStart(gridSpacing)
  \/ GridLatTest
  \/ (tissot.gridSpacing > 0 \/ Len(tissot.loop.samples) < MaxGridIterations)
       /\ GridLonTest

SpecGrid == Init /\ [][NextGrid]_vars

\* the interpolations of the two fixed-duration animations on their own: a
\* transition between two projections, frame by frame, and the frame of
\* animateTo between two centres (the start is the centre init was
\* configured with).  A projection is the parameters its getters return:
\* rotate() (a projection without rotate counts as [0, 0, 0]), scale(),
\* translate() and clipAngle(), which d3 reports as 0 for a projection that
\* is not clipped to a circle and the service takes as 180 when the
\* projection has no clipAngle method
PathRotations ==
  {<<0, 0, 0>>, <<170 * Deg, 0, 0>>, <<-170 * Deg, 0, 0>>, <<0, 0, 170 * Deg>>,
   <<0, 0, -170 * Deg>>, <<0, 100 * Deg, 0>>, <<0, -100 * Deg, 0>>,
   <<-10 * Deg, -20 * Deg, 0>>}
PathCenters ==
  {<<0, 0>>, <<170 * Deg, 0>>, <<-170 * Deg, 0>>, <<10 * Deg, 20 * Deg>>,
   <<-100 * Deg, 40 * Deg>>}

\* scale, translate and clip angle that go with a rotation of PathRotations:
\* cylindrical projections (not clipped), orthographic (clipped at 90
\* degrees) and stereographic (142 degrees) ones, in two viewports
PathParameters(r) ==
  LET globe == r[3] # 0
      tilted == r[2] # 0
  IN [rotate |-> r,
      scale |-> IF globe THEN 100 * Micro ELSE IF tilted THEN 73333333 ELSE 35014089,
      translate |-> IF r[1] < 0 THEN <<480 * Micro, 300 * Micro>>
                    ELSE <<110 * Micro, 110 * Micro>>,
      clipAngle |-> IF globe THEN 90 * Deg ELSE IF tilted THEN 142 * Deg ELSE 0,
      rotatable |-> TRUE, clippable |-> TRUE]

\* a composite projection (albersUsa): no rotate and no clipAngle method
CompositeParameters ==
  [rotate |-> <<0, 0, 0>>, scale |-> 183333333,
   translate |-> <<110 * Micro, 110 * Micro>>, clipAngle |-> 180 * Deg,
   rotatable |-> FALSE, clippable |-> FALSE]

PathProjections == {PathParameters(r) : r \in PathRotations} \cup {CompositeParameters}

\* (mutant) a clip angle applied only below a right angle
AppliedClipAngleBelowRight(base, clipAngle) ==
  IF base.clippable /\ clipAngle < 90 * Deg THEN clipAngle ELSE base.clipAngle

\* if (baseProjection.clipAngle && clipAngle < 180) baseProjection.clipAngle(clipAngle)
AppliedClipAngle(base, clipAngle) ==
  IF base.clippable /\ clipAngle < 180 * Deg THEN clipAngle ELSE base.clipAngle

\* transition(fromProjection, toProjection, ...): the parameters captured
\* before the first frame; toProjection is the object the frames write to
StartTransition(fromParameters, toParameters) ==
  /\ interpolation' =
       [op |-> "transition", from |-> fromParameters.rotate,
        to |-> toParameters.rotate, t |-> 0, rotation |-> fromParameters.rotate,
        frames |-> 0, fromProjection |-> fromParameters,
        toParameters |-> toParameters, toProjection |-> toParameters]
  /\ UNCHANGED <<engineVars, reprojVars, tissot, ctrlVars>>

\* one frame of the transition, at eased progress t:
\* createInterpolatedProjection(toProjection, ..., t) writes the interpolated
\* parameters to the destination projection
createInterpolatedProjection(t) ==
  LET from == interpolation.fromProjection
      to == interpolation.toParameters
      base == interpolation.toProjection
      rotation == InterpolatedRotation(from.rotate, to.rotate, t)
  IN /\ interpolation' =
          [interpolation EXCEPT
             !.t = t, !.rotation = rotation, !.frames = @ + 1,
             !.toProjection =
                [base EXCEPT
                   !.rotate = IF base.rotatable THEN ProjRotate(rotation) ELSE @,
                   !.scale = interpolateValue(from.scale, to.scale, t),
                   !.translate =
                      <<interpolateValue(from.translate[1], to.translate[1], t),
                        interpolateValue(from.translate[2], to.translate[2], t)>>,
                   !.clipAngle =
                      AppliedClipAngle(base,
                         interpolateValue(from.clipAngle, to.clipAngle, t))]]
     /\ UNCHANGED <<engineVars, reprojVars, tissot, ctrlVars>>

AnimateToStep(startCenter, center, eased) ==
  /\ interpolation' =
       [NoInterpolation EXCEPT
          !.op = "animateTo", !.from = CenterRotation(startCenter),
          !.to = CenterRotation(center), !.t = eased,
          !.rotation = CenterRotation(InterpCenter(startCenter, center, eased)),
          !.frames = 1]
  /\ UNCHANGED <<engineVars, reprojVars, tissot, ctrlVars>>

\* the frames of a transition come at increasing progress, the last one at 1
NextRotation ==
  \/ \E fromParameters \in PathProjections, toParameters \in PathProjections :
       /\ interpolation = NoInterpolation
       /\ StartTransition(fromParameters, toParameters)
  \/ \E t \in AngleTs :
       /\ interpolation.op = "transition"
       /\ interpolation.frames = 0 \/ (interpolation.t < t /\ interpolation.t < Q)
       /\ createInterpolatedProjection(t)
  \/ \E startCenter \in PathCenters, center \in PathCenters, t \in AngleTs :
       /\ interpolation = NoInterpolation
       /\ AnimateToStep(startCenter, center, EaseCubicInOut(t))

SpecRotation == Init /\ [][NextRotation]_vars

\* AnimationControllerService on its own: the calls of the component
\* (playAnimation, stopAnimation, pauseAnimation, resumeAnimation), the
\* ends of the step animations, the timers and the monitoring frames, in
\* any order
NextController ==
  \/ \E sequence \in Sequences : playSequence(sequence)
  \/ stop
  \/ pause
  \/ resume
  \/ \E i \in 1..Len(stepAnimations) : ZoomToDone(i)
  \/ \E i \in 1..Len(stepAnimations) : PanToDone(i)
  \/ StepTimerFires
  \/ \E elapsed \in BOOLEAN : monitorFps(elapsed)

SpecController == Init /\ [][NextController]_vars

\* ---------------------------------------------------------------- claims
\* number of convergence-loop callbacks waiting to run
LoopPending ==
  Cardinality({i \in 1..Len(rafQueue) : rafQueue[i].kind = "loop"}) +
  Cardinality({i \in 1..Len(running) : running[i].kind = "loop"})

\* every frame callback waiting to run
Pending == rafQueue \o running

\* number of waiting frame callbacks of the kinds ks
PendingOf(ks) == Cardinality({i \in 1..Len(Pending) : Pending[i].kind \in ks})

TimedKinds == {"animateTo", "transition", "crossFade"}

\* C1: once init has run, whatever wheel events (and drags, and smooth
\* setScale requests) interleave with convergence frames, currentScale stays
\* within [scaleExtent[0] * initialScale, scaleExtent[1] * initialScale].
C1_ScaleClamped ==
  projection # NoProj => ExtentMin <= currentScale /\ currentScale <= ExtentMax

\* a frame is about to clamp: the spring result is below the lower limit
C1_Witness ==
  /\ projection # NoProj
  /\ frames > 0
  /\ inputs > 0
  /\ currentScale = ExtentMin
  /\ SpringScale < ExtentMin

C3_StartCancelsRunning ==
  /\ PendingOf({"animateTo"}) <= 1
  /\ PendingOf({"transition", "crossFade"}) <= 1

\* C4: at most one convergence callback is pending, and it is the one whose
\* handle animationId holds; a start request made meanwhile adds none.
C4_OneLoopCallback ==
  /\ LoopPending <= 1
  /\ LoopPending = 1 =>
       \E i \in 1..Len(rafQueue \o running) :
         LET cb == (rafQueue \o running)[i]
         IN  cb.kind = "loop" /\ cb.h = animationId
  /\ (LoopPending = 0 /\ running = <<>>) => animationId = 0

\* a wheel (or setScale) request and a drag have both asked for the loop
\* while its single callback is pending
C4_Witness ==
  /\ LoopPending = 1
  /\ frames = 0
  /\ targetScale # currentScale
  /\ targetRotation # currentRotation

\* C5: a convergence frame in which no rotation axis moves by more than 1e-4
\* and the scale does not move clears the frame handle and schedules nothing.
C5_StopsWhenNothingMoves ==
  [][(/\ projection # NoProj
      /\ inputs' = inputs
      /\ calls' = calls
      /\ frames' # frames
      /\ currentScale' = currentScale
      /\ \A i \in 1..3 : Abs(currentRotation'[i] - currentRotation[i]) <= Eps)
     => (animationId' = 0 /\ rafQueue' = <<>>)]_vars

\* C6: no drag is dropped: while a drag delta is in the target and not yet
\* displayed (targetRotation differs from currentRotation), no frame of any
\* kind takes it out of the target.
C6_NoDragDropped ==
  [][(/\ inputs' = inputs
      /\ calls' = calls
      /\ targetRotation # currentRotation)
     => targetRotation' = targetRotation]_vars

\* C7: a pointer or wheel event changes the target state only; the displayed
\* rotation and scale and the projection's parameters are left as they were.
C7_InputsMoveTargetOnly ==
  [][inputs' # inputs =>
       /\ currentRotation' = currentRotation
       /\ currentScale' = currentScale
       /\ currentCenter' = currentCenter
       /\ proj' = proj]_vars

\* a wheel event and a drag have moved the targets and no frame has run
C7_Witness ==
  /\ inputs > 0
  /\ frames = 0
  /\ targetScale # currentScale
  /\ targetRotation # currentRotation
  /\ proj[projection].scale = currentScale

\* the state part of C8: no animation signals twice, an animation with a
\* callback waiting has not signalled and had not reached t = 1 when it last
\* ran (for a callback of the frame being run the clock has already
\* advanced), and one that was not cancelled and has no callback waiting has
\* signalled
C8_SignalledOnce ==
  /\ \A a \in DOMAIN signals : signals[a].count <= 1
  /\ \A i \in 1..Len(Pending) :
       Pending[i].kind \in TimedKinds => signals[Pending[i].aid].count = 0
  /\ \A i \in 1..Len(rafQueue) :
       rafQueue[i].kind \in TimedKinds =>
         Progress(rafQueue[i].elapsed, rafQueue[i].duration) < Q
  /\ \A i \in 1..Len(running) :
       running[i].kind \in TimedKinds =>
         Progress(running[i].elapsed - FrameMs, running[i].duration) < Q
  /\ \A a \in DOMAIN signals :
       (signals[a].count = 0 /\ ~signals[a].cancelled) =>
         \E i \in 1..Len(Pending) :
           Pending[i].kind \in TimedKinds /\ Pending[i].aid = a

\* the step part of C8: completion is signalled by the animation's own frame,
\* and only by a frame with t = 1
C8_SignalledAtEnd ==
  \A a \in DOMAIN signals :
    signals'[a].count # signals[a].count =>
      /\ CurrentFrame # <<>>
      /\ Head(CurrentFrame).aid = a
      /\ Progress(Head(CurrentFrame).elapsed, Head(CurrentFrame).duration) = Q

\* C8: a fixed-duration animation that is not cancelled stops scheduling
\* frames at the first frame with t = 1 and signals completion then, once,
\* and never before.
C8_CompletesOnceAtEnd == []C8_SignalledOnce /\ [][C8_SignalledAtEnd]_vars

\* a projection transition started by applyProjectionChange has completed
C8_Witness ==
  /\ calls = 1
  /\ Len(signals) = 1
  /\ signals[1].count = 1
  /\ projection # "p0"
  /\ transitionState.progress = Q
  /\ ~isTransitioning

\* C9: interpolateAngle starts from the source angle normalised to
\* [-180, 180], moves by t times a delta of at most 180 degrees, arrives at
\* the destination modulo 360 when t = 1, and from 170 to -170 degrees at
\* t = 0.5 yields 180 or -180 degrees.
C9_ShortestPath ==
  angle.done =>
    /\ \E k \in -2..2 :
         LET f == angle.from + k * 360 * Deg
         IN /\ -180 * Deg <= f /\ f <= 180 * Deg
            /\ Abs(angle.result - f) <= MulQ(180 * Deg, angle.t)
    /\ angle.t = Q => (angle.result - angle.to) % (360 * Deg) = 0
    /\ (angle.from = 170 * Deg /\ angle.to = -170 * Deg /\ angle.t = Q \div 2) =>
         angle.result \in {180 * Deg, -180 * Deg}

\* 170 to -170 degrees at t = 0.5 has been interpolated through 180 degrees
C9_Witness ==
  /\ angle.done
  /\ angle.from = 170 * Deg
  /\ angle.to = -170 * Deg
  /\ angle.t = Q \div 2
  /\ angle.result = 180 * Deg

\* C10: the displayed projection's scale is positive and within the extent
\* relative to the baseline scale.
C10_ProjectionScaleInExtent ==
  projection # NoProj =>
    /\ proj[projection].scale > 0
    /\ ExtentMin <= proj[projection].scale
    /\ proj[projection].scale <= ExtentMax

\* ---- selection of the projection type
\* a scale within the hysteresis band of a classification threshold
InBand(scale, threshold) == Abs(scale - threshold) < HysteresisQ

\* the last three selectOptimalProjection calls had the same centre and
\* scales within the band around one threshold
OscillatesInBand ==
  /\ selection.n >= 3
  /\ selection.sameCentre = 2
  /\ \E threshold \in {GlobalThresholdQ, RegionalThresholdQ} :
       /\ InBand(selection.scale, threshold)
       /\ InBand(selection.prevScale, threshold)
       /\ InBand(selection.prev2Scale, threshold)

\* C11: while successive selectOptimalProjection calls receive scales that
\* stay within the hysteresis band around a classification threshold, at a
\* fixed centre, the recommended type does not change from each call to the
\* next
C11_NoToggleInBand ==
  OscillatesInBand =>
    ~(selection.type # selection.prevType /\ selection.prevType # selection.prev2Type)

\* the rules of the claim that apply to an effective scale e and an
\* absolute latitude a, each with the type it names
C12_Rules(e, a) ==
  {r \in {<<1, e < GlobeScaleQ, "orthographic">>,
          <<2, GlobeScaleQ <= e /\ e < GlobalThresholdQ, "naturalEarth1">>,
          <<3, e > RegionalThresholdQ /\ a > 70 * Deg, "stereographic">>,
          <<4, e > RegionalThresholdQ /\ ~(a > 70 * Deg), "mercator">>,
          <<5, GlobalThresholdQ <= e /\ e <= RegionalThresholdQ /\ a > 60 * Deg,
            "azimuthalEqualArea">>,
          <<6, GlobalThresholdQ <= e /\ e <= RegionalThresholdQ
                 /\ 20 * Deg < a /\ a <= 60 * Deg, "conicEqualArea">>,
          <<7, GlobalThresholdQ <= e /\ e <= RegionalThresholdQ /\ a <= 20 * Deg,
            "naturalEarth1">>} : r[2]}

\* C12: the type selectOptimalProjection recommends is the one named by the
\* single rule that applies to the effective scale and the absolute latitude
C12_RulesDetermineType ==
  selection.n > 0 =>
    LET rules == C12_Rules(selection.effective, Abs(selection.lat))
    IN /\ Cardinality(rules) = 1
       /\ \A r \in rules : selection.type = r[3]

C12_Witness ==
  /\ selection.n = 1
  /\ selection.effective = GlobalThresholdQ
  /\ selection.lat = -40 * Deg
  /\ selection.type = "conicEqualArea"

\* C13: onProjectionRecommendation fires in a selectOptimalProjection call
\* exactly when the recommended type differs from the selector's active type,
\* and the settle check fires onProjectionTypeChange exactly when it obtained
\* a recommendation whose type differs from the engine's active type
C13_EmittedOnlyOnChange ==
  /\ selection.n > 0 => (selection.emitted <=> selection.type # selection.active)
  /\ settleCheck.n > 0 =>
       (settleCheck.emitted <=> settleCheck.type \notin {"none", settleCheck.active})

C13_Witness ==
  /\ settleCheck.n > 1
  /\ settleCheck.type = settleCheck.active
  /\ ~settleCheck.emitted
  /\ selection.type = selection.active
  /\ ~selection.emitted

\* C14: a selectOptimalProjection call leaves the selector's active type and
\* its hysteresis reference scale as they were, and a step that changes the
\* active type is not a selectOptimalProjection call
C14_SelectHasNoEffect ==
  [][/\ selection.n' # selection.n =>
          UNCHANGED <<selectorProjectionType, lastChangeScale>>
     /\ selectorProjectionType' # selectorProjectionType =>
          UNCHANGED selection]_vars

C14_Witness ==
  /\ selection.n = MaxSelections
  /\ selection.emitted
  /\ selection.type # selection.prevType
  /\ selectorProjectionType = "equirectangular"
  /\ lastChangeScale = Q

\* ---- benchmark metrics
\* C15: the frame history never holds more than 120 samples, holds the most
\* recent samples of the run in arrival order, and a frame recorded into a
\* full history pushes out the oldest sample
C15_HistoryBounded ==
  /\ Len(frameHistory) <= 120
  /\ Len(frameHistory) = Min(frameCount, 120)
  /\ \A i \in DOMAIN frameHistory :
       frameHistory[i].n = frameCount - Len(frameHistory) + i

C15_OldestEvicted ==
  (recordCalls' # recordCalls /\ isRunning /\ Len(frameHistory) = 120) =>
    /\ Len(frameHistory') = 120
    /\ SubSeq(frameHistory', 1, 119) = Tail(frameHistory)
    /\ frameHistory'[120].timestamp = now'

C15_RingBuffer == []C15_HistoryBounded /\ [][C15_OldestEvicted]_vars

C15_Witness ==
  /\ Len(frameHistory) = 120
  /\ frameCount = 122
  /\ frameHistory[1].n = 3
  /\ frameHistory[120].n = 122

\* C16: every sample in the history was recorded in the run started by the
\* most recent startBenchmark; startBenchmark empties the history and zeroes
\* the frame counter; recordFrame outside a run changes no field and no
\* signal of the service
C16_OnlyThisRun == \A i \in DOMAIN frameHistory : frameHistory[i].run = runs

C16_StartClears ==
  runs' # runs => (frameHistory' = <<>> /\ frameCount' = 0 /\ isRunning')

C16_IdleRecordNoOp ==
  (recordCalls' # recordCalls /\ ~isRunning) =>
    UNCHANGED <<frameHistory, isRunning, lastFrameTime, benchmarkStartTime,
                frameCount, currentFps, currentFrameTime,
                currentReprojectionTime, benchmarkResult>>

C16_HistoryOfCurrentRun ==
  []C16_OnlyThisRun /\ [][C16_StartClears /\ C16_IdleRecordNoOp]_vars

C16_Witness ==
  /\ runs = 2
  /\ isRunning
  /\ recordCalls = 3
  /\ frameCount = 1
  /\ Len(frameHistory) = 1
  /\ benchmarkResult.frameCount = 1

\* the last stopBenchmark reported on the history as it is now
ReportedHistory ==
  ~isRunning /\ benchmarkResult.testName # "none" /\ frameHistory # <<>>

\* C17: the averages stopBenchmark reports are the arithmetic means of the
\* recorded samples (to the reported precision), minFps and maxFps are the
\* extremes, minFps <= avgFps <= maxFps, and ten frames at 30 fps with 5 ms
\* of reprojection give avgFps 30, passesTarget and avgReprojectionTime 5
C17_MeansAndExtremes ==
  ReportedHistory =>
    LET n == Len(frameHistory)
        fps == [i \in DOMAIN frameHistory |-> frameHistory[i].fps]
        frameTime == [i \in DOMAIN frameHistory |-> frameHistory[i].frameTime]
        reprojection == [i \in DOMAIN frameHistory |-> frameHistory[i].reprojectionTime]
    IN /\ Abs(benchmarkResult.avgFps * n - Sum(fps)) <= 51 * n
       /\ Abs(benchmarkResult.avgFrameTime * n - Sum(frameTime)) <= 6 * n
       /\ Abs(benchmarkResult.avgReprojectionTime * n - Sum(reprojection)) <= 6 * n
       /\ \A i \in 1..n : /\ benchmarkResult.minFps <= fps[i] + 50
                           /\ benchmarkResult.maxFps >= fps[i] - 50
       /\ \E i \in 1..n : Abs(benchmarkResult.minFps - fps[i]) <= 50
       /\ \E i \in 1..n : Abs(benchmarkResult.maxFps - fps[i]) <= 50
       /\ benchmarkResult.minFps <= benchmarkResult.avgFps
       /\ benchmarkResult.avgFps <= benchmarkResult.maxFps
       /\ (n = 10 /\ \A i \in 1..n : fps[i] = 30000 /\ reprojection[i] = 5000) =>
            /\ benchmarkResult.avgFps = 30000
            /\ benchmarkResult.passesTarget
            /\ benchmarkResult.avgReprojectionTime = 5000

C17_Witness ==
  /\ ReportedHistory
  /\ Len(frameHistory) = 10
  /\ \A i \in 1..10 : frameHistory[i].fps = 30000 /\ frameHistory[i].reprojectionTime = 5000
  /\ benchmarkResult.avgFps = 30000
  /\ benchmarkResult.passesTarget
  /\ benchmarkResult.avgReprojectionTime = 5000

\* C18: in every result returned, passesTarget tells whether the avgFps of
\* that result is at least 23
C18_PassesIffAvgFps ==
  benchmarkResult.testName # "none" =>
    (benchmarkResult.passesTarget <=> benchmarkResult.avgFps >= 23000)

\* C19: the frameCount of a result is the number of frames recorded in the
\* run it reports on
C19_CountsEveryFrame ==
  (~isRunning /\ benchmarkResult.testName # "none" /\ frameCount > 0) =>
    benchmarkResult.frameCount = frameCount

\* C20 (as stated): stopBenchmark on an empty history returns a result whose
\* numeric fields avgFps, minFps, maxFps, avgFrameTime, avgReprojectionTime,
\* frameCount and duration are all zero, with passesTarget false
C20_AllZero ==
  [][(frameHistory = <<>> /\ benchmarkResult' # benchmarkResult) =>
       /\ benchmarkResult'.avgFps = 0
       /\ benchmarkResult'.minFps = 0
       /\ benchmarkResult'.maxFps = 0
       /\ benchmarkResult'.avgFrameTime = 0
       /\ benchmarkResult'.avgReprojectionTime = 0
       /\ benchmarkResult'.frameCount = 0
       /\ benchmarkResult'.duration = 0
       /\ ~benchmarkResult'.passesTarget]_vars

\* C20 (amended): stopBenchmark on an empty history returns a result whose
\* frame statistics are all zero, with passesTarget false; duration is the
\* time since the last startBenchmark
C20_EmptyStatisticsZero ==
  [][(frameHistory = <<>> /\ benchmarkResult' # benchmarkResult) =>
       /\ benchmarkResult'.avgFps = 0
       /\ benchmarkResult'.minFps = 0
       /\ benchmarkResult'.maxFps = 0
       /\ benchmarkResult'.avgFrameTime = 0
       /\ benchmarkResult'.avgReprojectionTime = 0
       /\ benchmarkResult'.frameCount = 0
       /\ benchmarkResult'.duration = now' - benchmarkStartTime
       /\ ~benchmarkResult'.passesTarget]_vars

C20_Witness ==
  /\ frameHistory = <<>>
  /\ frameCount = 0
  /\ ~isRunning
  /\ benchmarkResult.testName = "test"
  /\ benchmarkResult.frameCount = 0
  /\ benchmarkResult.avgFps = 0
  /\ benchmarkResult.duration = 500
  /\ ~benchmarkResult.passesTarget

\* <<lon, lat>> of pixel i of the last reprojection's target
TargetLonLat(i) ==
  LET r == reprojectionResult
      w == r.imageData.width
  IN Invert((i - 1) % w, (i - 1) \div w, w, r.imageData.height, r.scale,
            r.centerLon, r.centerLat)

TargetPixels == 1..Len(reprojectionResult.imageData.data)

\* C21: in the output of a nearest-neighbour or bilinear reprojection of a
\* Mercator source, every target pixel whose inverted latitude is above 85
\* or below -85 degrees is fully transparent (alpha = 0)
C21_PoleTransparent ==
  reprojectionResult.op \in {"nearest", "bilinear"} =>
    \A i \in TargetPixels :
      (TargetLonLat(i)[2] > 85 * Deg \/ TargetLonLat(i)[2] < -85 * Deg) =>
        reprojectionResult.imageData.data[i][4] = 0

\* a bilinear reprojection with a pixel at latitude 85.05 (transparent) and
\* an opaque pixel
C21_Witness ==
  /\ reprojectionResult.op = "bilinear"
  /\ \E i \in TargetPixels :
       /\ TargetLonLat(i)[2] = 85050000
       /\ reprojectionResult.imageData.data[i][4] = 0
  /\ \E j \in TargetPixels : reprojectionResult.imageData.data[j][4] = 255

\* the pixel the claim expects at target pixel i of a nearest-neighbour
\* reprojection
C22_Expected(i) ==
  LET src == reprojectionResult.source
      lonLat == TargetLonLat(i)
      srcX == MercX(lonLat[1], src.width)
      srcY == MercY(lonLat[2], src.height)
      inDomain == /\ -85 * Deg <= lonLat[2] /\ lonLat[2] <= 85 * Deg
                  /\ -180 * Deg <= lonLat[1] /\ lonLat[1] <= 180 * Deg
      inSource == /\ srcY[1] = "num"
                  /\ 0 <= srcX /\ srcX < src.width * Micro
                  /\ 0 <= srcY[2] /\ srcY[2] < src.height * Micro
  IN IF inDomain /\ inSource
     THEN PixelAt(src, srcX \div Micro, srcY[2] \div Micro)
     ELSE Transparent

C22_Pixels ==
  reprojectionResult.op = "nearest" =>
    \A i \in TargetPixels :
      reprojectionResult.imageData.data[i] = C22_Expected(i)

C22_SourceKept ==
  reprojectionResult' # reprojectionResult =>
    sourceData' = sourceData /\ reprojectionResult'.source = sourceData

\* C22: in nearest-neighbour reprojection a target pixel whose (lon, lat)
\* lies in the Mercator domain and whose forward source coordinate lies in
\* [0, srcWidth) x [0, srcHeight) equals the source pixel at (floor(srcX),
\* floor(srcY)), every other target pixel is transparent, and the source
\* buffer is unchanged
C22_NearestSample == []C22_Pixels /\ [][C22_SourceKept]_vars

\* a nearest-neighbour reprojection with a copied pixel whose source
\* coordinate has a fraction of a half or more, and a pixel in the domain
\* whose source coordinate is outside the source (lon = 180)
C22_Witness ==
  /\ reprojectionResult.op = "nearest"
  /\ \E i \in TargetPixels :
       /\ reprojectionResult.imageData.data[i] # Transparent
       /\ MercY(TargetLonLat(i)[2], reprojectionResult.source.height)[2] % Micro
            >= Micro \div 2
  /\ \E j \in TargetPixels :
       /\ TargetLonLat(j) = <<180 * Deg, 0>>
       /\ reprojectionResult.imageData.data[j] = Transparent

\* C23 as stated: every (x, y) inside both the source and the target
\* dimensions has the source pixel at (x, y) in the output of baselineCopy
C23_CopiesOverlap ==
  reprojectionResult.op = "baseline" =>
    \A x \in 0..(Min(reprojectionResult.source.width,
                     reprojectionResult.imageData.width) - 1),
       y \in 0..(Min(reprojectionResult.source.height,
                     reprojectionResult.imageData.height) - 1) :
      PixelAt(reprojectionResult.imageData, x, y) =
        PixelAt(reprojectionResult.source, x, y)

\* C23 amended: baselineCopy copies the bytes below both buffer lengths in
\* buffer order and leaves the other target bytes zero; for equal widths
\* every (x, y) inside both dimensions has the source pixel at (x, y), and
\* for equal dimensions the output is byte-identical to the source
C23_CopiesPrefix ==
  reprojectionResult.op = "baseline" =>
    LET src == reprojectionResult.source
        tgt == reprojectionResult.imageData
    IN /\ \A i \in 1..Len(tgt.data) :
            tgt.data[i] = IF i <= Len(src.data) THEN src.data[i] ELSE Transparent
       /\ src.width = tgt.width => C23_CopiesOverlap
       /\ (src.width = tgt.width /\ src.height = tgt.height) =>
            tgt.data = src.data

\* a baseline copy of a 4x4 source to a 4x4 target
C23_Witness ==
  /\ reprojectionResult.op = "baseline"
  /\ reprojectionResult.source.width = 4
  /\ reprojectionResult.imageData.width = 4
  /\ reprojectionResult.imageData.height = 4
  /\ reprojectionResult.imageData.data = reprojectionResult.source.data

\* the results of calculateTissotIndicatrix over the grid of the last call
TissotResults ==
  [n \in DOMAIN tissot.projection |->
     calculateTissotIndicatrix(tissot.projection[n],
                               GridPoints(tissot.gridSpacing)[n][1],
                               GridPoints(tissot.gridSpacing)[n][2])]

\* C24: every sample emitted by generateTissotCircles has a positive
\* determinant and a non-negative discriminant and axes with majorAxis >=
\* minorAxis > 0, and the output holds exactly the grid points that were not
\* rejected, in grid order
C24_EmittedSamplesValid ==
  tissot.done =>
    /\ \A i \in 1..Len(tissot.circles) :
         /\ tissot.circles[i].determinant > 0
         /\ tissot.circles[i].discriminant >= 0
         /\ tissot.circles[i].majorAxis >= tissot.circles[i].minorAxis
         /\ tissot.circles[i].minorAxis > 0
    /\ tissot.circles = SelectSeq(TissotResults, LAMBDA circle : ~circle.null)

\* a call of one of the engine's programmatic operations
C25_EngineCall ==
  \/ \E c \in Centers : setCenter(<<c[1] * Deg, c[2] * Deg>>)
  \/ \E sc \in ArgScales, tr \in BOOLEAN : setScale(sc, tr)
  \/ \E c \in Centers, sc \in ArgScales, d \in Durations, f \in FirstElapsed :
       animateTo(<<c[1] * Deg, c[2] * Deg>>, sc, d, f)
  \/ \E d \in Durations, f \in FirstElapsed : reset(d, f)
  \/ \E t \in SwitchTypes : replaceProjection(t)
  \/ \E t \in SwitchTypes, d \in AnimatedDurations, f \in FirstElapsed :
       applyProjectionChange(t, d, f)

\* C25: before init() has supplied a projection, setCenter, setScale,
\* animateTo, reset, replaceProjection and applyProjectionChange change no
\* engine state, schedule no frame and send no completion signal or
\* projection-type event
C25_NoOpBeforeInit ==
  [][(projection = NoProj /\ C25_EngineCall) =>
       UNCHANGED <<zoomVars, transVars, proj, rafQueue, running, signals,
                   selVars>>]_vars

\* the programmatic calls of a behaviour were all made before init
C25_Witness ==
  /\ projection = NoProj
  /\ calls = MaxCalls
  /\ rafQueue = <<>>
  /\ signals = <<>>
  /\ transitionState.progress = 0

\* a frame of a projection transition is registered or about to run
TransitionPending ==
  \/ \E i \in 1..Len(rafQueue) : rafQueue[i].kind = "transition"
  \/ \E i \in 1..Len(running) : running[i].kind = "transition"

\* C26: an applyProjectionChange call completes and clears isTransitioning,
\* also when the transition it awaits is cancelled or superseded.  The flag
\* is cleared only by the continuation of the awaited transition, so the
\* claim requires that the flag is never set without a frame of that
\* transition still to run
C26_AwaitedTransitionLive == isTransitioning => TransitionPending

\* C27: the steps of a sequence run one at a time: in every interleaving of
\* playSequence, pause, resume and stop with the ends of step animations and
\* the timers between steps, at most one step animation is in flight, so a
\* step starts only after the step before it has completed.
C27_OneStepInFlight == Len(stepAnimations) <= 1

\* C28: in every pass the steps started are 0, 1, 2, ... in index order, each
\* once, up to the end of the sequence, whatever step animation or timer
\* from before a pause, stop or replay is still outstanding.
C28_StepsInOrder ==
  \A i \in 1..Len(stepLog) :
    stepLog[i] = IF i <= controller.currentSequence.steps THEN i - 1 ELSE EndOfPass

\* C29: the debounced projection check is evaluated only once the convergence
\* loop has stopped and stayed idle: when the check runs, no loop frame is
\* registered.
C29_CheckedWhenIdle == [][settleCheck'.n # settleCheck.n => animationId = 0]_vars

\* the angle between two directions, in 0..180 degrees
AngularDistance(a, b) ==
  LET d == (a - b) % (360 * Deg)
  IN Min(d, 360 * Deg - d)

\* C30: in a fixed-duration animation every rotation axis follows the
\* shortest angular path: at parameter t the interpolated angle of each axis
\* of a projection transition, and of the rotation animateTo sets from the
\* centre, is away from the start angle by no more than the fraction t of
\* the angular distance between the start and the end angle.
C30_ShortestPathOnAllAxes ==
  interpolation.op # "none" =>
    \A i \in 1..3 :
      AngularDistance(interpolation.rotation[i], interpolation.from[i])
        <= MulQ(AngularDistance(interpolation.to[i], interpolation.from[i]),
                interpolation.t)

\* C31: whenever no projection transition is in progress, the projection type
\* the engine holds and the active type of the selector are equal.
C31_TypesAgree ==
  (~isTransitioning /\ ~transitionState.isTransitioning) =>
    currentProjectionType = selectorProjectionType

\* a step that is a call of animateTo (or of reset, which calls it): a
\* programmatic call that registers an animateTo frame callback
AnimateToCalled ==
  /\ calls' = calls + 1
  /\ Len(rafQueue') = Len(rafQueue) + 1
  /\ rafQueue'[Len(rafQueue')].kind = "animateTo"

\* C32: animateTo starts from the view displayed when it is called: at t = 0
\* its interpolation gives the rotation and (up to one unit of the
\* relative scale, its rounding) the scale the engine holds at the call.
C32_StartsFromDisplayedView ==
  [][AnimateToCalled =>
       LET cb == rafQueue'[Len(rafQueue')]
       IN /\ CenterRotation(InterpCenter(cb.startCenter, cb.center, 0)) = currentRotation
          /\ Abs(AbsoluteScale(Lerp(cb.startScale, cb.scale, 0)) - currentScale)
               <= initialScale \div Micro + 1]_vars

\* the last frame of a transition has run
TransitionDone ==
  interpolation.op = "transition" /\ interpolation.frames > 0 /\ interpolation.t = Q

\* C33: when a transition completes, the destination projection carries the
\* parameters it had when the transition started: its rotation modulo 360
\* degrees, its scale, its translate and its clip angle.
C33_DestinationRestored ==
  TransitionDone =>
    /\ \A i \in 1..3 :
         (interpolation.toProjection.rotate[i] - interpolation.toParameters.rotate[i])
           % (360 * Deg) = 0
    /\ interpolation.toProjection.scale = interpolation.toParameters.scale
    /\ interpolation.toProjection.translate = interpolation.toParameters.translate
    /\ interpolation.toProjection.clipAngle = interpolation.toParameters.clipAngle

\* a transition of three frames from a projection that is not clipped to a
\* clipped one in another viewport has completed
C33_Witness ==
  /\ TransitionDone
  /\ interpolation.frames = 3
  /\ interpolation.fromProjection.clipAngle = 0
  /\ interpolation.toParameters.clipAngle = 90 * Deg
  /\ interpolation.fromProjection.translate # interpolation.toParameters.translate
  /\ interpolation.fromProjection.scale # interpolation.toParameters.scale

\* C34: setProjectionType(type, w, h, center, s) commits `type` as the
\* selector's active type and leaves the hysteresis baseline lastChangeScale
\* equal to s, the relative scale of the projection in its own viewport,
\* whatever the viewport size (one unit of 1/Q allowed for the rounding of the
\* two divisions)
C34_BaselineIsRelativeScale ==
  [][\A t \in SelectorTypes, vp \in SelectorViewports, sc \in SelectorScales :
       setProjectionType(t, vp, sc) =>
         /\ selectorProjectionType' = t
         /\ Abs(lastChangeScale' - sc) <= 1]_vars

\* relative scale of a projection of the given type in the viewport of the
\* last selection, in units of 1/Q
ViewportRelativeScale(type, scale) ==
  RatioQ(scale, CalculateBaseScale(type, selection.viewport[1],
                                   selection.viewport[2]))

\* C35: the projection transferProjectionState returns has the centre of the
\* source projection and its relative scale, newScale / baseScale(toType) =
\* fromProjection.scale() / baseScale(type of fromProjection), after any
\* selections and confirmations (two units of 1/Q allowed for the rounding)
C35_ViewTransferred ==
  selection.transfer.n > 0 =>
    /\ selection.transfer.lat = selection.lat
    /\ Abs(ViewportRelativeScale(selection.transfer.toType, selection.transfer.scale)
           - ViewportRelativeScale(selection.transfer.fromType,
                           selection.transfer.fromScale)) <= 2

\* C36: at most one FPS-monitoring frame loop is scheduled at any time during
\* playback, whatever steps, pauses and resumes came before, and none is
\* scheduled once the sequence has ended or been stopped
C36_OneFpsLoop ==
  /\ fpsMonitors <= 1
  /\ ~controller.isPlaying => fpsMonitors = 0

\* playSequence is the only call made on the controller so far
Uninterrupted == controllerCalls = 1 /\ controller.currentSequence # NoSequence

\* the last executeStep found no step left and ran handleSequenceEnd
PassEnded == stepLog # <<>> /\ stepLog[Len(stepLog)] = EndOfPass

\* step animations running and executeStep timers set
Outstanding == Len(stepAnimations) + stepTimers

C38_LoopsAdvance ==
  [][/\ (tissot.loop.pc = "lon" /\ tissot'.loop.pc = "lon")
          => tissot'.loop.lon > tissot.loop.lon
     /\ (tissot.loop.pc = "lon" /\ tissot'.loop.pc = "lat")
          => tissot'.loop.lat > tissot.loop.lat]_vars

\* a sample of the grid
InLongitudeRange(s) == -180 <= s[1] /\ s[1] < 180

\* C39 as stated: for a positive spacing every sample has its longitude in
\* [-180, 180) and its latitude in [-90 + spacing, 90 - spacing]
C39_SamplesAwayFromPoles ==
  tissot.gridSpacing > 0 =>
    \A i \in 1..Len(tissot.loop.samples) :
      /\ InLongitudeRange(tissot.loop.samples[i])
      /\ -90 + tissot.gridSpacing <= tissot.loop.samples[i][2]
      /\ tissot.loop.samples[i][2] <= 90 - tissot.gridSpacing

\* C39 amended: for a positive spacing every sample has its longitude in
\* [-180, 180) and its latitude in [-90 + spacing, 90), and at most
\* 90 - spacing when the spacing is an integer that divides 180
C39_SamplesBelowNorthPole ==
  tissot.gridSpacing > 0 =>
    \A i \in 1..Len(tissot.loop.samples) :
      /\ InLongitudeRange(tissot.loop.samples[i])
      /\ -90 + tissot.gridSpacing <= tissot.loop.samples[i][2]
      /\ tissot.loop.samples[i][2] < 90
      /\ 180 % tissot.gridSpacing = 0
           => tissot.loop.samples[i][2] <= 90 - tissot.gridSpacing

\* a grid of spacing 50 has been sampled to its end: its last latitude, 60,
\* is closer than 50 degrees to the pole
C39_Witness ==
  /\ tissot.loop.pc = "returned"
  /\ tissot.gridSpacing = 50
  /\ \E i \in 1..Len(tissot.loop.samples) : tissot.loop.samples[i][2] = 60

\* what the last bilinear reprojection worked out for its target pixel i
SampleOf(i) ==
  LET r == reprojectionResult
      w == r.imageData.width
  IN BilinearSample(r.source, (i - 1) % w, (i - 1) \div w, w,
                    r.imageData.height, r.scale, r.centerLon, r.centerLat)

\* channel c of the four source pixels blended into target pixel i
Neighbours(i, c) ==
  {SourcePixel(reprojectionResult.source, SampleOf(i).x0 + dx,
               SampleOf(i).y0 + dy)[c] : dx \in {0, 1}, dy \in {0, 1}}

\* C40: for every target pixel a bilinear reprojection samples, the four
\* source pixels it reads lie inside the source image (0 <= x0, x0 + 1 <=
\* srcWidth - 1, 0 <= y0, y0 + 1 <= srcHeight - 1), and each output channel
\* lies between the smallest and the largest of its four neighbour values
C40_BilinearInSource ==
  reprojectionResult.op = "bilinear" =>
    \A i \in TargetPixels :
      SampleOf(i).sampled =>
        /\ 0 <= SampleOf(i).x0
        /\ SampleOf(i).x0 + 1 <= reprojectionResult.source.width - 1
        /\ 0 <= SampleOf(i).y0
        /\ SampleOf(i).y0 + 1 <= reprojectionResult.source.height - 1
        /\ \A c \in 1..4 :
             /\ \E u \in Neighbours(i, c) :
                  u <= reprojectionResult.imageData.data[i][c]
             /\ \E v \in Neighbours(i, c) :
                  reprojectionResult.imageData.data[i][c] <= v

\* a bilinear reprojection with a pixel blended from the last column of the
\* source, strictly between two of its neighbours, and a pixel that the
\* bounds check left out although the domain check let it pass
C40_Witness ==
  /\ reprojectionResult.op = "bilinear"
  /\ \E i \in TargetPixels :
       /\ SampleOf(i).sampled
       /\ SampleOf(i).x0 + 1 = reprojectionResult.source.width - 1
       /\ SampleOf(i).xFrac > 0
       /\ \E u, v \in Neighbours(i, 1) :
            /\ u < reprojectionResult.imageData.data[i][1]
            /\ reprojectionResult.imageData.data[i][1] < v
  /\ \E j \in TargetPixels :
       /\ ~SampleOf(j).sampled
       /\ InMercatorDomain(TargetLonLat(j)[1], TargetLonLat(j)[2])


====
